---- MODULE Spec2Model ----
(***************************************************************************)
(* Model of the ipchess daemon's challenge protocol:                       *)
(*   daemon/src/protocol/behaviour.rs  (Ipchess, the challenge behaviour)  *)
(*   daemon/src/protocol/handler.rs    (IpchessHandler, one per connection)*)
(* Byte strings (preimage, random, commitment) are drawn from the small    *)
(* set Bytes; SHA-256 is a collision-free map on Bytes without fixed point.*)
(***************************************************************************)
EXTENDS Integers, Sequences, FiniteSets, TLC

\* ------------------------------------------------------------------ bounds
\* Number of distinct byte strings a Vec<u8> can hold in the model.
NumBytes == 2
\* Longest action queue (Ipchess::events) a call may leave behind.
MaxQueue == 2

\* ------------------------------------------------------- program constants
\* IpchessConfig::default, in seconds.
challenge_accept_timeout == 300
challenge_preimage_timeout == 15

\* --------------------------------------------------------------- universes
\* Nodes that run the daemon, and the peer ids a node can talk to.
Node == {"A", "B"}
PeerId == {"A", "B", "M"}
PeersOf(n) == PeerId \ {n}

Bytes == 0 .. (NumBytes - 1)

\* Readings of the monotonic clock (Instant::now()), in seconds: the
\* readings at which a timestamp taken at 0, 15 or 16 is at, and just
\* past, each of the two timeouts.
Instants == {0, challenge_preimage_timeout, challenge_preimage_timeout + 1,
             challenge_accept_timeout, challenge_accept_timeout + 1}

\* libp2p::multihash::Sha2_256::digest: deterministic, collision free, and
\* never the identity on the modelled byte strings.
Sha2_256(x) == (x + 1) % NumBytes

\* ------------------------------------------------------------------- types
None == [tag |-> "None"]
\* struct OutboundChallenge
OutboundChallenge(preimage, timestamp) ==
    [tag |-> "Some", preimage |-> preimage, timestamp |-> timestamp]
\* enum InboundChallenge
Received(commitment) == [tag |-> "Received", commitment |-> commitment]
PendingPreimage(commitment, random, timestamp) ==
    [tag |-> "PendingPreimage", commitment |-> commitment,
     random |-> random, timestamp |-> timestamp]

\* enum IpchessHandlerEventIn, as the behaviour constructs it
InChallenge(commitment) == [type |-> "Challenge", bytes |-> commitment]
InChallengeAccept(random) == [type |-> "ChallengeAccept", bytes |-> random]
InChallengeReveal(preimage) == [type |-> "ChallengeReveal", bytes |-> preimage]
InChallengeCanceled == [type |-> "ChallengeCanceled"]
InChallengeDeclined == [type |-> "ChallengeDeclined"]
InChallengePoisoned == [type |-> "ChallengePoisoned"]

\* enum IpchessHandlerEventOut, as the behaviour matches on it
OutChallengeReceived(commitment) == [type |-> "ChallengeReceived", bytes |-> commitment]
OutChallengeRevealReceived(preimage) == [type |-> "ChallengeRevealReceived", bytes |-> preimage]
OutChallengeAccepted(random) == [type |-> "ChallengeAccepted", bytes |-> random]
OutChallengeCanceled == [type |-> "ChallengeCanceled"]
OutChallengeDeclined == [type |-> "ChallengeDeclined"]

IpchessHandlerEventOut ==
    {OutChallengeReceived(c) : c \in Bytes}
    \cup {OutChallengeRevealReceived(x) : x \in Bytes}
    \cup {OutChallengeAccepted(r) : r \in Bytes}
    \cup {OutChallengeCanceled, OutChallengeDeclined}

\* enum IpchessEvent / IpchessError
PeerChallenge(p) == [type |-> "PeerChallenge", peer_id |-> p]
ChallengeAccepted(p, preimage, random) ==
    [type |-> "ChallengeAccepted", peer_id |-> p,
     preimage |-> preimage, random |-> random]
ChallengeDeclined(p) == [type |-> "ChallengeDeclined", peer_id |-> p]
ChallengeCanceled(p) == [type |-> "ChallengeCanceled", peer_id |-> p]
ChallengeCommitmentPreimageMismatch ==
    [type |-> "Error", error |-> "ChallengeCommitmentPreimageMismatch"]
ChallengeTimeout(p, direction) ==
    [type |-> "Error", error |-> "ChallengeTimeout",
     peer_id |-> p, direction |-> direction]

\* NetworkBehaviourAction, the two variants Ipchess queues
NotifyHandler(p, ev) ==
    [action |-> "NotifyHandler", peer_id |-> p, handler |-> "Any", event |-> ev]
GenerateEvent(ev) == [action |-> "GenerateEvent", event |-> ev]

\* Poll<NetworkBehaviourAction>
Ready(a) == [poll |-> "Ready", value |-> a]
Pending == [poll |-> "Pending"]

\* ------------------------------------------------------------------- state
VARIABLES
    events,               \* Ipchess::events, per node
    outbound_challenges,  \* Ipchess::outbound_challenges, per node and peer
    inbound_challenges,   \* Ipchess::inbound_challenges, per node and peer
    connected,            \* the overlay's connected-peer set, per node
    now,                  \* the monotonic clock
    last,                 \* the call made by the last step and what it returned
    actions_queue,        \* Behaviour::actions_queue, per node
    substream_states,     \* IpchessHandler::substream_states, per node
    handler_error_received, \* IpchessHandler::handler_error_received, per node
    keep_alive,           \* IpchessHandler::keep_alive, per node
    streams,              \* the substreams negotiated so far, in order
    history               \* the calls made on the behaviours so far

behaviour_vars == <<events, outbound_challenges, inbound_challenges>>
handler_vars == <<substream_states, handler_error_received, keep_alive>>
net_vars == <<actions_queue, substream_states, handler_error_received, keep_alive,
              streams, history>>
vars == <<events, outbound_challenges, inbound_challenges, connected, now, last,
          actions_queue, substream_states, handler_error_received, keep_alive,
          streams, history>>

Call(op, n, p, arg, ret) ==
    [op |-> op, node |-> n, peer |-> p, arg |-> arg, ret |-> ret]

\* enum KeepAlive
KeepAliveYes == [keep_alive |-> "Yes"]
KeepAliveNo == [keep_alive |-> "No"]
KeepAliveUntil(t) == [keep_alive |-> "Until", instant |-> t]

\* Ipchess::new, Behaviour::new and IpchessHandler::new
InitState ==
    /\ events = [n \in Node |-> <<>>]
    /\ outbound_challenges = [n \in Node |-> [p \in PeersOf(n) |-> None]]
    /\ inbound_challenges = [n \in Node |-> [p \in PeersOf(n) |-> None]]
    /\ now = 0
    /\ last = Call("new", "A", "A", None, None)
    /\ actions_queue = [n \in Node |-> <<>>]
    /\ substream_states = [n \in Node |-> <<>>]
    /\ handler_error_received = [n \in Node |-> FALSE]
    /\ keep_alive = [n \in Node |-> KeepAliveYes]
    /\ streams = <<>>
    /\ history = <<>>

\* The daemon right after its start: no connection yet.
Init ==
    /\ InitState
    /\ connected = [n \in Node |-> {}]

\* The queue a call leaves behind stays within the model's bound.
QueueBounded(n) == Len(events'[n]) <= MaxQueue

\* ---------------------------------------------------------- local commands
\* Variant: no guard against a duplicate challenge; the slot is overwritten.
challenge_peer_unguarded(n, p) ==
    /\ \E preimage \in Bytes :
         LET commitment == Sha2_256(preimage) IN
         /\ outbound_challenges' =
              [outbound_challenges EXCEPT ![n][p] = OutboundChallenge(preimage, now)]
         /\ events' =
              [events EXCEPT ![n] = Append(@, NotifyHandler(p, InChallenge(commitment)))]
    /\ QueueBounded(n)
    /\ last' = Call("challenge_peer", n, p, None, None)
    /\ UNCHANGED <<inbound_challenges, connected, now>>

\* Ipchess::challenge_peer
challenge_peer(n, p) ==
    /\ IF outbound_challenges[n][p].tag # "None"
       THEN UNCHANGED <<events, outbound_challenges>>
       ELSE \E preimage \in Bytes :
              LET commitment == Sha2_256(preimage) IN
              /\ outbound_challenges' =
                   [outbound_challenges EXCEPT ![n][p] = OutboundChallenge(preimage, now)]
              /\ events' =
                   [events EXCEPT ![n] = Append(@, NotifyHandler(p, InChallenge(commitment)))]
    /\ QueueBounded(n)
    /\ last' = Call("challenge_peer", n, p, None, None)
    /\ UNCHANGED <<inbound_challenges, connected, now>>

\* Variant: the random stored in the slot is not the one sent to the peer.
accept_peer_challenge_stores_other_random(n, p) ==
    LET challenge_data == inbound_challenges[n][p] IN
    /\ CASE challenge_data.tag = "None" ->
              UNCHANGED <<events, inbound_challenges>>
         [] challenge_data.tag = "Received" ->
              \E random \in Bytes :
                /\ events' =
                     [events EXCEPT ![n] = Append(@, NotifyHandler(p, InChallengeAccept(random)))]
                /\ inbound_challenges' =
                     [inbound_challenges EXCEPT
                        ![n][p] = PendingPreimage(challenge_data.commitment,
                                                  (random + 1) % NumBytes, now)]
         [] challenge_data.tag = "PendingPreimage" ->
              UNCHANGED <<events, inbound_challenges>>
    /\ QueueBounded(n)
    /\ last' = Call("accept_peer_challenge", n, p, None, None)
    /\ UNCHANGED <<outbound_challenges, connected, now>>

\* Variant: an accept on a slot already accepted draws and sends again.
accept_peer_challenge_again(n, p) ==
    LET challenge_data == inbound_challenges[n][p] IN
    /\ CASE challenge_data.tag = "None" ->
              UNCHANGED <<events, inbound_challenges>>
         [] challenge_data.tag \in {"Received", "PendingPreimage"} ->
              \E random \in Bytes :
                /\ events' =
                     [events EXCEPT ![n] = Append(@, NotifyHandler(p, InChallengeAccept(random)))]
                /\ inbound_challenges' =
                     [inbound_challenges EXCEPT
                        ![n][p] = PendingPreimage(challenge_data.commitment, random, now)]
    /\ QueueBounded(n)
    /\ last' = Call("accept_peer_challenge", n, p, None, None)
    /\ UNCHANGED <<outbound_challenges, connected, now>>

\* Ipchess::accept_peer_challenge
accept_peer_challenge(n, p) ==
    LET challenge_data == inbound_challenges[n][p] IN
    /\ CASE challenge_data.tag = "None" ->
              UNCHANGED <<events, inbound_challenges>>
         [] challenge_data.tag = "Received" ->
              \E random \in Bytes :
                /\ events' =
                     [events EXCEPT ![n] = Append(@, NotifyHandler(p, InChallengeAccept(random)))]
                /\ inbound_challenges' =
                     [inbound_challenges EXCEPT
                        ![n][p] = PendingPreimage(challenge_data.commitment, random, now)]
         [] challenge_data.tag = "PendingPreimage" ->
              UNCHANGED <<events, inbound_challenges>>
    /\ QueueBounded(n)
    /\ last' = Call("accept_peer_challenge", n, p, None, None)
    /\ UNCHANGED <<outbound_challenges, connected, now>>

\* Variant: the cancel command is sent but the slot is kept.
cancel_challenge_keeps_slot(n, p) ==
    /\ IF outbound_challenges[n][p].tag # "None"
       THEN /\ events' =
                 [events EXCEPT ![n] = Append(@, NotifyHandler(p, InChallengeCanceled))]
            /\ UNCHANGED outbound_challenges
       ELSE UNCHANGED <<events, outbound_challenges>>
    /\ QueueBounded(n)
    /\ last' = Call("cancel_challenge", n, p, None, None)
    /\ UNCHANGED <<inbound_challenges, connected, now>>

\* Ipchess::cancel_challenge
cancel_challenge(n, p) ==
    /\ IF outbound_challenges[n][p].tag # "None"
       THEN /\ outbound_challenges' = [outbound_challenges EXCEPT ![n][p] = None]
            /\ events' =
                 [events EXCEPT ![n] = Append(@, NotifyHandler(p, InChallengeCanceled))]
       ELSE UNCHANGED <<events, outbound_challenges>>
    /\ QueueBounded(n)
    /\ last' = Call("cancel_challenge", n, p, None, None)
    /\ UNCHANGED <<inbound_challenges, connected, now>>

\* Variant: only a challenge not yet accepted can be declined.
decline_peer_challenge_received_only(n, p) ==
    /\ IF inbound_challenges[n][p].tag = "Received"
       THEN /\ inbound_challenges' = [inbound_challenges EXCEPT ![n][p] = None]
            /\ events' =
                 [events EXCEPT ![n] = Append(@, NotifyHandler(p, InChallengeDeclined))]
       ELSE UNCHANGED <<events, inbound_challenges>>
    /\ QueueBounded(n)
    /\ last' = Call("decline_peer_challenge", n, p, None, None)
    /\ UNCHANGED <<outbound_challenges, connected, now>>

\* Ipchess::decline_peer_challenge
decline_peer_challenge(n, p) ==
    /\ IF inbound_challenges[n][p].tag # "None"
       THEN /\ inbound_challenges' = [inbound_challenges EXCEPT ![n][p] = None]
            /\ events' =
                 [events EXCEPT ![n] = Append(@, NotifyHandler(p, InChallengeDeclined))]
       ELSE UNCHANGED <<events, inbound_challenges>>
    /\ QueueBounded(n)
    /\ last' = Call("decline_peer_challenge", n, p, None, None)
    /\ UNCHANGED <<outbound_challenges, connected, now>>

\* ----------------------------------------------------------- inbound frames
\* Variant: the comparison with the commitment is skipped.
CommitmentNotCompared(preimage, commitment) == TRUE

\* The comparison of the revealed preimage's digest with the stored
\* commitment (behaviour.rs:290-292).
CommitmentMatches(preimage, commitment) == Sha2_256(preimage) = commitment

\* Variant: a challenge from a peer whose slot is occupied is announced but
\* does not replace the slot.
inject_ChallengeReceivedKeepsSlot(n, p, commitment) ==
    /\ inbound_challenges' =
         [inbound_challenges EXCEPT
            ![n][p] = IF @.tag = "None" THEN Received(commitment) ELSE @]
    /\ events' = [events EXCEPT ![n] = Append(@, GenerateEvent(PeerChallenge(p)))]
    /\ UNCHANGED outbound_challenges

\* Ipchess::inject_event, IpchessHandlerEventOut::ChallengeReceived
inject_ChallengeReceived(n, p, commitment) ==
    /\ inbound_challenges' = [inbound_challenges EXCEPT ![n][p] = Received(commitment)]
    /\ events' = [events EXCEPT ![n] = Append(@, GenerateEvent(PeerChallenge(p)))]
    /\ UNCHANGED outbound_challenges

\* Variant: a reveal that does not match drops every inbound challenge, not
\* only the one of the peer that sent it.
inject_RevealMismatchClearsAll(n, p, preimage) ==
    LET inbound_challenge == inbound_challenges[n][p] IN
    /\ CASE inbound_challenge.tag = "None" ->
              UNCHANGED <<events, inbound_challenges>>
         [] inbound_challenge.tag = "PendingPreimage" ->
              IF CommitmentMatches(preimage, inbound_challenge.commitment)
              THEN /\ inbound_challenges' = [inbound_challenges EXCEPT ![n][p] = None]
                   /\ events' =
                        [events EXCEPT ![n] = Append(@, GenerateEvent(
                            ChallengeAccepted(p, preimage, inbound_challenge.random)))]
              ELSE /\ inbound_challenges' =
                        [inbound_challenges EXCEPT ![n] = [q \in DOMAIN @ |-> None]]
                   /\ events' =
                        [events EXCEPT ![n] =
                            Append(Append(@, NotifyHandler(p, InChallengePoisoned)),
                                   GenerateEvent(ChallengeCommitmentPreimageMismatch))]
         [] inbound_challenge.tag = "Received" ->
              /\ inbound_challenges' = [inbound_challenges EXCEPT ![n][p] = None]
              /\ events' =
                   [events EXCEPT ![n] = Append(@, NotifyHandler(p, InChallengePoisoned))]
    /\ UNCHANGED outbound_challenges

\* Variant: a reveal that does not match clears the slot and reports the
\* error, but the handler is not poisoned.
inject_RevealMismatchNotPoisoned(n, p, preimage) ==
    LET inbound_challenge == inbound_challenges[n][p] IN
    /\ CASE inbound_challenge.tag = "None" ->
              UNCHANGED <<events, inbound_challenges>>
         [] inbound_challenge.tag = "PendingPreimage" ->
              /\ inbound_challenges' = [inbound_challenges EXCEPT ![n][p] = None]
              /\ IF CommitmentMatches(preimage, inbound_challenge.commitment)
                 THEN events' =
                        [events EXCEPT ![n] = Append(@, GenerateEvent(
                            ChallengeAccepted(p, preimage, inbound_challenge.random)))]
                 ELSE events' =
                        [events EXCEPT ![n] =
                            Append(@, GenerateEvent(ChallengeCommitmentPreimageMismatch))]
         [] inbound_challenge.tag = "Received" ->
              /\ inbound_challenges' = [inbound_challenges EXCEPT ![n][p] = None]
              /\ events' =
                   [events EXCEPT ![n] = Append(@, NotifyHandler(p, InChallengePoisoned))]
    /\ UNCHANGED outbound_challenges

\* Ipchess::inject_event, IpchessHandlerEventOut::ChallengeRevealReceived
inject_ChallengeRevealReceived(n, p, preimage) ==
    LET inbound_challenge == inbound_challenges[n][p] IN
    /\ CASE inbound_challenge.tag = "None" ->
              UNCHANGED <<events, inbound_challenges>>
         [] inbound_challenge.tag = "PendingPreimage" ->
              /\ inbound_challenges' = [inbound_challenges EXCEPT ![n][p] = None]
              /\ IF CommitmentMatches(preimage, inbound_challenge.commitment)
                 THEN events' =
                        [events EXCEPT ![n] = Append(@, GenerateEvent(
                            ChallengeAccepted(p, preimage, inbound_challenge.random)))]
                 ELSE events' =
                        [events EXCEPT ![n] =
                            Append(Append(@, NotifyHandler(p, InChallengePoisoned)),
                                   GenerateEvent(ChallengeCommitmentPreimageMismatch))]
         [] inbound_challenge.tag = "Received" ->
              /\ inbound_challenges' = [inbound_challenges EXCEPT ![n][p] = None]
              /\ events' =
                   [events EXCEPT ![n] = Append(@, NotifyHandler(p, InChallengePoisoned))]
    /\ UNCHANGED outbound_challenges

\* Variant: the reveal carries the peer's random instead of the stored
\* preimage.
inject_ChallengeAcceptedRevealsRandom(n, p, random) ==
    LET sent_challenge == outbound_challenges[n][p] IN
    /\ IF sent_challenge.tag # "None"
       THEN /\ outbound_challenges' = [outbound_challenges EXCEPT ![n][p] = None]
            /\ events' =
                 [events EXCEPT ![n] =
                    Append(Append(@, NotifyHandler(p, InChallengeReveal(random))),
                           GenerateEvent(ChallengeAccepted(p, sent_challenge.preimage, random)))]
       ELSE UNCHANGED <<events, outbound_challenges>>
    /\ UNCHANGED inbound_challenges

\* Variant: an accepted outbound challenge also drops the peer's inbound
\* challenge.
inject_ChallengeAcceptedClearsInbound(n, p, random) ==
    LET sent_challenge == outbound_challenges[n][p] IN
    IF sent_challenge.tag # "None"
    THEN /\ outbound_challenges' = [outbound_challenges EXCEPT ![n][p] = None]
         /\ inbound_challenges' = [inbound_challenges EXCEPT ![n][p] = None]
         /\ events' =
              [events EXCEPT ![n] =
                 Append(Append(@, NotifyHandler(p, InChallengeReveal(sent_challenge.preimage))),
                        GenerateEvent(ChallengeAccepted(p, sent_challenge.preimage, random)))]
    ELSE UNCHANGED <<events, outbound_challenges, inbound_challenges>>

\* Variant: the event is queued before the reveal command.
inject_ChallengeAcceptedEventFirst(n, p, random) ==
    LET sent_challenge == outbound_challenges[n][p] IN
    /\ IF sent_challenge.tag # "None"
       THEN /\ outbound_challenges' = [outbound_challenges EXCEPT ![n][p] = None]
            /\ events' =
                 [events EXCEPT ![n] =
                    Append(Append(@, GenerateEvent(
                                       ChallengeAccepted(p, sent_challenge.preimage, random))),
                           NotifyHandler(p, InChallengeReveal(sent_challenge.preimage)))]
       ELSE UNCHANGED <<events, outbound_challenges>>
    /\ UNCHANGED inbound_challenges

\* Variant: the preimage is revealed and no event is produced.
inject_ChallengeAcceptedRevealOnly(n, p, random) ==
    LET sent_challenge == outbound_challenges[n][p] IN
    /\ IF sent_challenge.tag # "None"
       THEN /\ outbound_challenges' = [outbound_challenges EXCEPT ![n][p] = None]
            /\ events' =
                 [events EXCEPT ![n] =
                    Append(@, NotifyHandler(p, InChallengeReveal(sent_challenge.preimage)))]
       ELSE UNCHANGED <<events, outbound_challenges>>
    /\ UNCHANGED inbound_challenges

\* Ipchess::inject_event, IpchessHandlerEventOut::ChallengeAccepted
inject_ChallengeAccepted(n, p, random) ==
    LET sent_challenge == outbound_challenges[n][p] IN
    /\ IF sent_challenge.tag # "None"
       THEN /\ outbound_challenges' = [outbound_challenges EXCEPT ![n][p] = None]
            /\ events' =
                 [events EXCEPT ![n] =
                    Append(Append(@, NotifyHandler(p, InChallengeReveal(sent_challenge.preimage))),
                           GenerateEvent(ChallengeAccepted(p, sent_challenge.preimage, random)))]
       ELSE UNCHANGED <<events, outbound_challenges>>
    /\ UNCHANGED inbound_challenges

\* Variant: the cancellation is announced but the slot is kept.
inject_ChallengeCanceledKeepsSlot(n, p) ==
    /\ IF inbound_challenges[n][p].tag # "None"
       THEN /\ events' = [events EXCEPT ![n] = Append(@, GenerateEvent(ChallengeCanceled(p)))]
            /\ UNCHANGED inbound_challenges
       ELSE UNCHANGED <<events, inbound_challenges>>
    /\ UNCHANGED outbound_challenges

\* Ipchess::inject_event, IpchessHandlerEventOut::ChallengeCanceled
inject_ChallengeCanceled(n, p) ==
    /\ IF inbound_challenges[n][p].tag # "None"
       THEN /\ inbound_challenges' = [inbound_challenges EXCEPT ![n][p] = None]
            /\ events' = [events EXCEPT ![n] = Append(@, GenerateEvent(ChallengeCanceled(p)))]
       ELSE UNCHANGED <<events, inbound_challenges>>
    /\ UNCHANGED outbound_challenges

\* Variant: the decline is announced but the slot is kept.
inject_ChallengeDeclinedKeepsSlot(n, p) ==
    /\ IF outbound_challenges[n][p].tag # "None"
       THEN /\ events' = [events EXCEPT ![n] = Append(@, GenerateEvent(ChallengeDeclined(p)))]
            /\ UNCHANGED outbound_challenges
       ELSE UNCHANGED <<events, outbound_challenges>>
    /\ UNCHANGED inbound_challenges

\* Variant: a decline is announced whether or not a challenge is outstanding.
inject_ChallengeDeclinedUnconditional(n, p) ==
    /\ outbound_challenges' = [outbound_challenges EXCEPT ![n][p] = None]
    /\ events' = [events EXCEPT ![n] = Append(@, GenerateEvent(ChallengeDeclined(p)))]
    /\ UNCHANGED inbound_challenges

\* Ipchess::inject_event, IpchessHandlerEventOut::ChallengeDeclined
inject_ChallengeDeclined(n, p) ==
    /\ IF outbound_challenges[n][p].tag # "None"
       THEN /\ outbound_challenges' = [outbound_challenges EXCEPT ![n][p] = None]
            /\ events' = [events EXCEPT ![n] = Append(@, GenerateEvent(ChallengeDeclined(p)))]
       ELSE UNCHANGED <<events, outbound_challenges>>
    /\ UNCHANGED inbound_challenges

\* Ipchess::inject_event: the match on the handler's event
inject_event(n, p, event) ==
    /\ CASE event.type = "ChallengeReceived" -> inject_ChallengeReceived(n, p, event.bytes)
         [] event.type = "ChallengeRevealReceived" -> inject_ChallengeRevealReceived(n, p, event.bytes)
         [] event.type = "ChallengeAccepted" -> inject_ChallengeAccepted(n, p, event.bytes)
         [] event.type = "ChallengeCanceled" -> inject_ChallengeCanceled(n, p)
         [] event.type = "ChallengeDeclined" -> inject_ChallengeDeclined(n, p)
    /\ QueueBounded(n)
    /\ last' = Call("inject_event", n, p, event, None)
    /\ UNCHANGED <<connected, now>>

\* ------------------------------------------------------------------- poll
\* Variant: a challenge times out as soon as its age reaches the timeout.
OutboundTimedOutAtTimeout(challenge, t) ==
    /\ challenge.tag = "Some"
    /\ t - challenge.timestamp >= challenge_accept_timeout

\* behaviour.rs:390, the filter of the outbound challenges that timed out
OutboundTimedOut(challenge, t) ==
    /\ challenge.tag = "Some"
    /\ t - challenge.timestamp > challenge_accept_timeout

\* Variant: the reveal is given as long as the accept.
InboundTimedOutAfterAcceptTimeout(challenge, t) ==
    /\ challenge.tag = "PendingPreimage"
    /\ t - challenge.timestamp > challenge_accept_timeout

\* behaviour.rs:413-421, the filter of the inbound challenges that timed out
InboundTimedOut(challenge, t) ==
    /\ challenge.tag = "PendingPreimage"
    /\ t - challenge.timestamp > challenge_preimage_timeout

\* The orders in which an iteration over a HashMap can visit the keys S.
IterationOrders(S) ==
    {s \in [1 .. Cardinality(S) -> S] : \A i, j \in DOMAIN s : s[i] = s[j] => i = j}

TimeoutEvents(order, direction) ==
    [i \in DOMAIN order |-> GenerateEvent(ChallengeTimeout(order[i], direction))]

\* Ipchess::poll
poll(n) ==
    /\ IF events[n] # <<>>
       THEN /\ events' = [events EXCEPT ![n] = Tail(@)]
            /\ last' = Call("poll", n, n, None, Ready(Head(events[n])))
            /\ UNCHANGED <<outbound_challenges, inbound_challenges>>
       ELSE LET timedout_outbound_challenge_keys ==
                    {p \in PeersOf(n) : OutboundTimedOut(outbound_challenges[n][p], now)}
                timedout_inbound_challenge_keys ==
                    {p \in PeersOf(n) : InboundTimedOut(inbound_challenges[n][p], now)}
            IN  \E oo \in IterationOrders(timedout_outbound_challenge_keys),
                   io \in IterationOrders(timedout_inbound_challenge_keys) :
                  /\ outbound_challenges' =
                       [outbound_challenges EXCEPT ![n] =
                          [p \in PeersOf(n) |->
                             IF p \in timedout_outbound_challenge_keys THEN None ELSE @[p]]]
                  /\ inbound_challenges' =
                       [inbound_challenges EXCEPT ![n] =
                          [p \in PeersOf(n) |->
                             IF p \in timedout_inbound_challenge_keys THEN None ELSE @[p]]]
                  /\ events' =
                       [events EXCEPT ![n] =
                          TimeoutEvents(oo, "Outbound") \o TimeoutEvents(io, "Inbound")]
                  /\ last' = Call("poll", n, n, None, Pending)
    /\ UNCHANGED <<connected, now>>

\* ------------------------------------------------------------------ clock
\* Time passes between two calls: the next reading of Instant::now().
Tick ==
    /\ \E t \in Instants : t > now /\ now' = t
    /\ last' = Call("tick", "A", "A", None, None)
    /\ UNCHANGED <<events, outbound_challenges, inbound_challenges, connected>>

\* ---------------------------------------------------------------- overlay
\* Ipchess::inject_connected: the overlay has opened the first connection
\* to p. The behaviour's callback is empty.
inject_connected(n, p) ==
    /\ p \notin connected[n]
    /\ connected' = [connected EXCEPT ![n] = @ \cup {p}]
    /\ last' = Call("inject_connected", n, p, None, None)
    /\ UNCHANGED <<events, outbound_challenges, inbound_challenges, now>>

\* Variant: the challenges with a peer are dropped when it disconnects.
inject_disconnected_drops_challenges(n, p) ==
    /\ p \in connected[n]
    /\ connected' = [connected EXCEPT ![n] = @ \ {p}]
    /\ outbound_challenges' = [outbound_challenges EXCEPT ![n][p] = None]
    /\ inbound_challenges' = [inbound_challenges EXCEPT ![n][p] = None]
    /\ last' = Call("inject_disconnected", n, p, None, None)
    /\ UNCHANGED <<events, now>>

\* Ipchess::inject_disconnected: the overlay has closed the last connection
\* to p. The behaviour's callback is empty.
inject_disconnected(n, p) ==
    /\ p \in connected[n]
    /\ connected' = [connected EXCEPT ![n] = @ \ {p}]
    /\ last' = Call("inject_disconnected", n, p, None, None)
    /\ UNCHANGED <<events, outbound_challenges, inbound_challenges, now>>

\* ------------------------------------------------------------ one behaviour
\* The behaviour of node A and its exchanges with peer B, driven by its
\* callers: the control surface (local commands), the overlay runtime
\* (poll, connection callbacks, and inject_event with any frame the remote
\* peer may have sent, honest or not) and the clock.
Remote == {"B"}

Next ==
    \/ \E p \in Remote : challenge_peer("A", p) /\ UNCHANGED net_vars
    \/ \E p \in Remote : accept_peer_challenge("A", p) /\ UNCHANGED net_vars
    \/ \E p \in Remote : cancel_challenge("A", p) /\ UNCHANGED net_vars
    \/ \E p \in Remote : decline_peer_challenge("A", p) /\ UNCHANGED net_vars
    \/ \E p \in Remote, event \in IpchessHandlerEventOut :
         inject_event("A", p, event) /\ UNCHANGED net_vars
    \/ \E p \in Remote : inject_connected("A", p) /\ UNCHANGED net_vars
    \/ \E p \in Remote : inject_disconnected("A", p) /\ UNCHANGED net_vars
    \/ poll("A") /\ UNCHANGED net_vars
    \/ Tick /\ UNCHANGED net_vars

Spec == Init /\ [][Next]_vars

\* The same behaviour under its scheduling: the overlay runtime keeps
\* polling it (main's loop awaits the swarm again after every event) and
\* the clock keeps advancing. Nothing obliges the callers to stop making
\* commands or the remote peer to stop sending frames.
Fairness ==
    /\ WF_vars(poll("A") /\ UNCHANGED net_vars)
    /\ WF_vars(Tick /\ UNCHANGED net_vars)

SpecFair == Init /\ [][Next]_vars /\ Fairness

\* ----------------------------------------------------------------- handler
\* ipchessproto::Message: the payload, or none.
Message(payload) == [payload |-> payload]
PayloadChallenge(commitment) == [type |-> "Challenge", bytes |-> commitment]
PayloadChallengeAccept(random) == [type |-> "ChallengeAccept", bytes |-> random]
PayloadChallengeReveal(preimage) == [type |-> "ChallengeReveal", bytes |-> preimage]
PayloadChallengeCancel == [type |-> "ChallengeCancel"]
PayloadChallengeDecline == [type |-> "ChallengeDecline"]

\* enum SubstreamState. A future is named by the substream it works on.
PendingOpen(msg) == [state |-> "PendingOpen", msg |-> msg]
PendingSend(stream) == [state |-> "PendingSend", stream |-> stream]
WaitingMessage(stream) == [state |-> "WaitingMessage", stream |-> stream]

\* ProtocolsHandlerEvent, and Poll::Pending, as IpchessHandler::poll returns
OutboundSubstreamRequest(msg) == [type |-> "OutboundSubstreamRequest", msg |-> msg]
Custom(event) == [type |-> "Custom", event |-> event]
Close(error) == [type |-> "Close", error |-> error]
HandlerPending == [type |-> "Pending"]

\* Variant: the accept command is framed as a reveal.
FrameOfAcceptAsReveal(event) ==
    CASE event.type = "Challenge" -> Message(PayloadChallenge(event.bytes))
      [] event.type = "ChallengeAccept" -> Message(PayloadChallengeReveal(event.bytes))
      [] event.type = "ChallengeReveal" -> Message(PayloadChallengeReveal(event.bytes))

\* The frame IpchessHandler::inject_event builds for a behaviour command
\* (handler.rs:145-176).
FrameOf(event) ==
    CASE event.type = "Challenge" -> Message(PayloadChallenge(event.bytes))
      [] event.type = "ChallengeAccept" -> Message(PayloadChallengeAccept(event.bytes))
      [] event.type = "ChallengeReveal" -> Message(PayloadChallengeReveal(event.bytes))

\* The frames of the two commands behaviour.rs constructs and handler.rs
\* does not declare: the mapping of the specification, section 4.2.
FrameOfCancelDecline(event) ==
    CASE event.type = "ChallengeCanceled" -> Message(PayloadChallengeCancel)
      [] event.type = "ChallengeDeclined" -> Message(PayloadChallengeDecline)

\* Variant: a reveal frame is surfaced as an accept.
EventOfRevealAsAccepted(payload) ==
    CASE payload.type = "Challenge" -> OutChallengeReceived(payload.bytes)
      [] payload.type = "ChallengeAccept" -> OutChallengeAccepted(payload.bytes)
      [] payload.type = "ChallengeReveal" -> OutChallengeAccepted(payload.bytes)

\* The event IpchessHandler::poll surfaces for a decoded payload
\* (handler.rs:238-262).
EventOf(payload) ==
    CASE payload.type = "Challenge" -> OutChallengeReceived(payload.bytes)
      [] payload.type = "ChallengeAccept" -> OutChallengeAccepted(payload.bytes)
      [] payload.type = "ChallengeReveal" -> OutChallengeRevealReceived(payload.bytes)

\* The events of the two payloads ipchessproto.rs declares and handler.rs
\* does not match: the mapping of the specification, section 4.2.
EventOfCancelDecline(payload) ==
    CASE payload.type = "ChallengeCancel" -> OutChallengeCanceled
      [] payload.type = "ChallengeDecline" -> OutChallengeDeclined

\* IpchessHandler::inject_event: the handler's state after the command.
handler_inject_event(n, event) ==
    /\ CASE event.type = "ChallengePoisoned" ->
              /\ handler_error_received' = [handler_error_received EXCEPT ![n] = TRUE]
              /\ UNCHANGED substream_states
         [] event.type \in {"Challenge", "ChallengeAccept", "ChallengeReveal"} ->
              /\ substream_states' =
                   [substream_states EXCEPT ![n] = Append(@, PendingOpen(FrameOf(event)))]
              /\ UNCHANGED handler_error_received
         [] event.type \in {"ChallengeCanceled", "ChallengeDeclined"} ->
              /\ substream_states' =
                   [substream_states EXCEPT
                      ![n] = Append(@, PendingOpen(FrameOfCancelDecline(event)))]
              /\ UNCHANGED handler_error_received
    /\ UNCHANGED keep_alive

\* Variant: the last record is removed whatever the index.
SwapRemovePopsLast(s, k) == SubSeq(s, 1, Len(s) - 1)

\* Vec::swap_remove, on a sequence indexed from 1
SwapRemove(s, k) ==
    IF k = Len(s)
    THEN SubSeq(s, 1, Len(s) - 1)
    ELSE [SubSeq(s, 1, Len(s) - 1) EXCEPT ![k] = s[Len(s)]]

\* The loop of IpchessHandler::poll over the substream records, from the
\* last index k down to the first (handler.rs:218-279). outcome[stream] is
\* what polling the future of that substream yields in this call: "Pending",
\* "Ok" or an error. The result is the records left, what poll returns (or
\* HandlerPending when the loop ends) and the substreams whose frame was
\* written in this call.
RECURSIVE PollSubstreams(_, _, _, _)
PollSubstreams(states, k, outcome, written) ==
    IF k = 0
    THEN [states |-> states, ret |-> HandlerPending, written |-> written, ended |-> TRUE]
    ELSE
      LET state == states[k]
          rest == SwapRemove(states, k)
          return(r) == [states |-> rest, ret |-> r, written |-> written, ended |-> FALSE]
      IN  CASE state.state = "PendingOpen" ->
                 return(OutboundSubstreamRequest(state.msg))
            [] state.state = "PendingSend" ->
                 CASE outcome[state.stream] = "Ok" ->
                        PollSubstreams(rest, k - 1, outcome, written \cup {state.stream})
                   [] outcome[state.stream] = "Pending" ->
                        PollSubstreams(Append(rest, state), k - 1, outcome, written)
                   [] OTHER -> return(Close(outcome[state.stream]))
            [] state.state = "WaitingMessage" ->
                 CASE outcome[state.stream] = "Ok" ->
                        LET msg == streams[state.stream].msg IN
                        IF msg.payload = None
                        THEN PollSubstreams(rest, k - 1, outcome, written)
                        ELSE IF msg.payload.type \in {"ChallengeCancel", "ChallengeDecline"}
                        THEN return(Custom(EventOfCancelDecline(msg.payload)))
                        ELSE return(Custom(EventOf(msg.payload)))
                   [] outcome[state.stream] = "Pending" ->
                        PollSubstreams(Append(rest, state), k - 1, outcome, written)
                   [] OTHER -> return(Close(outcome[state.stream]))

\* Variant: the poison flag is looked at only when no record is left.
handler_poll_records_before_poison(n, outcome) ==
    IF substream_states[n] = <<>>
    THEN [states |-> substream_states[n], keep_alive |-> keep_alive[n],
          ret |-> IF handler_error_received[n] THEN Close("Poisoned") ELSE HandlerPending,
          written |-> {}]
    ELSE LET r == PollSubstreams(substream_states[n], Len(substream_states[n]), outcome, {})
         IN  [states |-> r.states,
              keep_alive |-> IF ~r.ended THEN keep_alive[n]
                             ELSE IF r.states = <<>> THEN KeepAliveUntil(now + 30)
                             ELSE KeepAliveYes,
              ret |-> r.ret, written |-> r.written]

\* Variant: a failed future is dropped and the poll goes on as if nothing
\* was left to do.
handler_poll_swallows_errors(n, outcome) ==
    IF handler_error_received[n]
    THEN [states |-> substream_states[n], keep_alive |-> keep_alive[n],
          ret |-> Close("Poisoned"), written |-> {}]
    ELSE IF substream_states[n] = <<>>
    THEN [states |-> substream_states[n], keep_alive |-> keep_alive[n],
          ret |-> HandlerPending, written |-> {}]
    ELSE LET r == PollSubstreams(substream_states[n], Len(substream_states[n]), outcome, {})
         IN  [states |-> r.states,
              keep_alive |-> IF ~r.ended THEN keep_alive[n]
                             ELSE IF r.states = <<>> THEN KeepAliveUntil(now + 30)
                             ELSE KeepAliveYes,
              ret |-> IF r.ret.type = "Close" THEN HandlerPending ELSE r.ret,
              written |-> r.written]

\* IpchessHandler::poll: the records left, the keep-alive, what is returned
\* and the substreams written.
handler_poll(n, outcome) ==
    IF handler_error_received[n]
    THEN [states |-> substream_states[n], keep_alive |-> keep_alive[n],
          ret |-> Close("Poisoned"), written |-> {}]
    ELSE IF substream_states[n] = <<>>
    THEN [states |-> substream_states[n], keep_alive |-> keep_alive[n],
          ret |-> HandlerPending, written |-> {}]
    ELSE LET r == PollSubstreams(substream_states[n], Len(substream_states[n]), outcome, {})
         IN  [states |-> r.states,
              keep_alive |-> IF ~r.ended THEN keep_alive[n]
                             ELSE IF r.states = <<>> THEN KeepAliveUntil(now + 30)
                             ELSE KeepAliveYes,
              ret |-> r.ret, written |-> r.written]

\* --------------------------------------------------------------- two nodes
\* Most commands that take effect in one run of the two nodes.
MaxCommands == 2

Other(n) == CHOOSE m \in Node : m # n

\* A call that changes a behaviour is recorded in the history.
Recorded == history' = Append(history, last')

Commands == {"challenge_peer", "accept_peer_challenge", "cancel_challenge",
             "decline_peer_challenge"}

NumCommands == Cardinality({i \in DOMAIN history : history[i].op \in Commands})

\* A local command of the control surface on node n (main.rs:114-132).
Command(n) ==
    /\ \/ challenge_peer(n, Other(n))
       \/ accept_peer_challenge(n, Other(n))
       \/ cancel_challenge(n, Other(n))
       \/ decline_peer_challenge(n, Other(n))
    /\ IF behaviour_vars' # behaviour_vars
       THEN NumCommands < MaxCommands /\ Recorded
       ELSE UNCHANGED history
    /\ UNCHANGED <<actions_queue, handler_vars, streams>>

\* Behaviour::poll (daemon/src/behaviour.rs:316-351) and what the swarm does
\* with the action returned: a domain event goes to the actions queue, a
\* handler command to the handler of the connection with the peer, if any.
Behaviour_poll(n) ==
    /\ poll(n)
    /\ LET ret == last'.ret IN
       CASE ret = Pending ->
              UNCHANGED <<actions_queue, handler_vars>>
         [] ret # Pending /\ ret.value.action = "GenerateEvent" ->
              /\ actions_queue' = [actions_queue EXCEPT ![n] = Append(@, ret.value.event)]
              /\ UNCHANGED handler_vars
         [] ret # Pending /\ ret.value.action = "NotifyHandler" ->
              /\ IF ret.value.peer_id \in connected[n]
                 THEN handler_inject_event(n, ret.value.event)
                 ELSE UNCHANGED handler_vars
              /\ UNCHANGED actions_queue
    /\ IF last'.ret = Pending /\ events'[n] # <<>>
       THEN Recorded
       ELSE UNCHANGED history
    /\ UNCHANGED streams

\* What polling the futures held by the handler of node n can yield between
\* two honest nodes: a write completes or is still pending; a read completes
\* only once the frame was written.
Outcomes(n) ==
    LET held == {substream_states[n][k].stream :
                   k \in {j \in DOMAIN substream_states[n] :
                            substream_states[n][j].state # "PendingOpen"}}
    IN  {o \in [DOMAIN streams -> {"Pending", "Ok"}] :
           \A i \in DOMAIN streams :
              /\ i \notin held => o[i] = "Pending"
              /\ (streams[i].src # n /\ ~streams[i].written) => o[i] = "Pending"}

\* IpchessHandler::poll on node n and what the overlay does with the result:
\* it negotiates the substream asked for (inject_fully_negotiated_outbound
\* on n, inject_fully_negotiated_inbound on the peer), hands a decoded
\* frame to the behaviour (inject_event), or closes the connection.
Handler_poll(n) ==
    /\ Other(n) \in connected[n]
    /\ \E outcome \in Outcomes(n) :
         LET r == handler_poll(n, outcome)
             m == Other(n)
             wrote == [i \in DOMAIN streams |->
                         [streams[i] EXCEPT !.written = @ \/ i \in r.written]]
         IN
         /\ keep_alive' = [keep_alive EXCEPT ![n] = r.keep_alive]
         /\ CASE r.ret.type = "OutboundSubstreamRequest" ->
                   /\ streams' = Append(wrote, [src |-> n, msg |-> r.ret.msg, written |-> FALSE])
                   /\ substream_states' =
                        [substream_states EXCEPT
                           ![n] = Append(r.states, PendingSend(Len(streams) + 1)),
                           ![m] = Append(@, WaitingMessage(Len(streams) + 1))]
                   /\ last' = Call("handler_poll", n, m, None, r.ret)
                   /\ UNCHANGED <<behaviour_vars, connected, now, history, handler_error_received>>
              [] r.ret.type = "Custom" ->
                   /\ streams' = wrote
                   /\ substream_states' = [substream_states EXCEPT ![n] = r.states]
                   /\ inject_event(n, m, r.ret.event)
                   /\ Recorded
                   /\ UNCHANGED handler_error_received
              [] r.ret.type = "Close" ->
                   /\ streams' = wrote
                   /\ connected' = [x \in Node |-> connected[x] \ {n, m}]
                   /\ substream_states' = [x \in Node |-> <<>>]
                   /\ handler_error_received' = [x \in Node |-> FALSE]
                   /\ last' = Call("handler_poll", n, m, None, r.ret)
                   /\ UNCHANGED <<behaviour_vars, now, history>>
              [] r.ret.type = "Pending" ->
                   /\ streams' = wrote
                   /\ substream_states' = [substream_states EXCEPT ![n] = r.states]
                   /\ last' = Call("handler_poll", n, m, None, r.ret)
                   /\ UNCHANGED <<behaviour_vars, connected, now, history, handler_error_received>>
    /\ UNCHANGED actions_queue

\* Two honest nodes with one connection to each other.
InitNet ==
    /\ InitState
    /\ connected = [n \in Node |-> {Other(n)}]

NextNet ==
    \/ \E n \in Node : Command(n)
    \/ \E n \in Node : Behaviour_poll(n)
    \/ \E n \in Node : Handler_poll(n)

SpecNet == InitNet /\ [][NextNet]_vars

\* ------------------------------------------------- two nodes, one challenger
\* The commands of one run, in the order they are given: node A challenges,
\* node B accepts, node A cancels and challenges again. When each is given,
\* relative to the polls and the frames in flight, is left open.
RaceScript == << "challenge_peer", "accept_peer_challenge",
                 "cancel_challenge", "challenge_peer" >>

\* The next command of the script, once it takes effect.
RaceCommand ==
    /\ NumCommands < Len(RaceScript)
    /\ \/ challenge_peer("A", "B")
       \/ cancel_challenge("A", "B")
       \/ accept_peer_challenge("B", "A")
    /\ last'.op = RaceScript[NumCommands + 1]
    /\ behaviour_vars' # behaviour_vars
    /\ Recorded
    /\ UNCHANGED <<actions_queue, handler_vars, streams>>

NextRace ==
    \/ RaceCommand
    \/ \E n \in Node : Behaviour_poll(n)
    \/ \E n \in Node : Handler_poll(n)

SpecRace == InitNet /\ [][NextRace]_vars

\* ------------------------------------- two nodes, two challenges in a row
\* The commands of one run, in the order they are given, each with the
\* bytes its random generator yields: node A challenges, node B accepts,
\* node A cancels and challenges again, node B accepts again. When each is
\* given, relative to the polls and the frames in flight, is left open.
SeedScript ==
    << [op |-> "challenge_peer", rng |-> 0],
       [op |-> "accept_peer_challenge", rng |-> 0],
       [op |-> "cancel_challenge", rng |-> 0],
       [op |-> "challenge_peer", rng |-> 1],
       [op |-> "accept_peer_challenge", rng |-> 1] >>

\* The next command of the script, once it takes effect.
SeedCommand ==
    LET next == SeedScript[NumCommands + 1] IN
    /\ NumCommands < Len(SeedScript)
    /\ \/ /\ challenge_peer("A", "B")
          /\ outbound_challenges'["A"]["B"].preimage = next.rng
       \/ cancel_challenge("A", "B")
       \/ /\ accept_peer_challenge("B", "A")
          /\ inbound_challenges'["B"]["A"].tag = "PendingPreimage"
          /\ inbound_challenges'["B"]["A"].random = next.rng
    /\ last'.op = next.op
    /\ behaviour_vars' # behaviour_vars
    /\ Recorded
    /\ UNCHANGED <<actions_queue, handler_vars, streams>>

NextSeed ==
    \/ SeedCommand
    \/ \E n \in Node : Behaviour_poll(n)
    \/ \E n \in Node : Handler_poll(n)

SpecSeed == InitNet /\ [][NextSeed]_vars

\* ------------------------------------------------ one behaviour, two peers
\* Node A with every peer it can talk to; the peers send what they like.
NextPeers ==
    \/ \E p \in PeersOf("A") : challenge_peer("A", p) /\ UNCHANGED net_vars
    \/ \E p \in PeersOf("A") : accept_peer_challenge("A", p) /\ UNCHANGED net_vars
    \/ \E p \in PeersOf("A") : cancel_challenge("A", p) /\ UNCHANGED net_vars
    \/ \E p \in PeersOf("A") : decline_peer_challenge("A", p) /\ UNCHANGED net_vars
    \/ \E p \in PeersOf("A") : \E event \in IpchessHandlerEventOut :
         inject_event("A", p, event) /\ UNCHANGED net_vars
    \/ poll("A") /\ UNCHANGED net_vars

SpecPeers == Init /\ [][NextPeers]_vars

\* ------------------------------------------------ two nodes, failing I/O
\* enum IpchessHandlerError, the variants a future can fail with: what the
\* future of send_message fails with, and what the one of read_message.
SendErrors == {"ProtobufEncode", "SubstreamWrite", "SubstreamFlush"}
ReadErrors == {"SubstreamRead", "ProtobufDecode"}

\* What polling the futures held by the handler of node n can yield when
\* one of them, at least, fails.
FailingOutcomes(n) ==
    LET held(state) == {substream_states[n][k].stream :
                          k \in {j \in DOMAIN substream_states[n] :
                                   substream_states[n][j].state = state}}
    IN  {o \in [DOMAIN streams -> {"Pending", "Ok"} \cup SendErrors \cup ReadErrors] :
           /\ \A i \in DOMAIN streams :
                /\ o[i] \in SendErrors => i \in held("PendingSend")
                /\ o[i] \in ReadErrors => i \in held("WaitingMessage")
                /\ o[i] = "Ok" =>
                     \/ i \in held("PendingSend")
                     \/ i \in held("WaitingMessage") /\ streams[i].written
           /\ \E i \in DOMAIN streams : o[i] \notin {"Pending", "Ok"}}

\* IpchessHandler::poll on node n with a future that fails, and what the
\* overlay does with the result.
Handler_poll_failing(n) ==
    /\ Other(n) \in connected[n]
    /\ \E outcome \in FailingOutcomes(n) :
         LET r == handler_poll(n, outcome)
             m == Other(n)
             wrote == [i \in DOMAIN streams |->
                         [streams[i] EXCEPT !.written = @ \/ i \in r.written]]
         IN
         /\ keep_alive' = [keep_alive EXCEPT ![n] = r.keep_alive]
         /\ CASE r.ret.type = "OutboundSubstreamRequest" ->
                   /\ streams' = Append(wrote, [src |-> n, msg |-> r.ret.msg, written |-> FALSE])
                   /\ substream_states' =
                        [substream_states EXCEPT
                           ![n] = Append(r.states, PendingSend(Len(streams) + 1)),
                           ![m] = Append(@, WaitingMessage(Len(streams) + 1))]
                   /\ last' = Call("handler_poll", n, m, [outcome |-> outcome], r.ret)
                   /\ UNCHANGED <<behaviour_vars, connected, now, history, handler_error_received>>
              [] r.ret.type = "Custom" ->
                   /\ streams' = wrote
                   /\ substream_states' = [substream_states EXCEPT ![n] = r.states]
                   /\ inject_event(n, m, r.ret.event)
                   /\ Recorded
                   /\ UNCHANGED handler_error_received
              [] r.ret.type = "Close" ->
                   /\ streams' = wrote
                   /\ connected' = [x \in Node |-> connected[x] \ {n, m}]
                   /\ substream_states' = [x \in Node |-> <<>>]
                   /\ handler_error_received' = [x \in Node |-> FALSE]
                   /\ last' = Call("handler_poll", n, m, [outcome |-> outcome], r.ret)
                   /\ UNCHANGED <<behaviour_vars, now, history>>
              [] r.ret.type = "Pending" ->
                   /\ streams' = wrote
                   /\ substream_states' = [substream_states EXCEPT ![n] = r.states]
                   /\ last' = Call("handler_poll", n, m, [outcome |-> outcome], r.ret)
                   /\ UNCHANGED <<behaviour_vars, connected, now, history, handler_error_received>>
    /\ UNCHANGED actions_queue

NextFail ==
    \/ \E n \in Node : Command(n)
    \/ \E n \in Node : Behaviour_poll(n)
    \/ \E n \in Node : Handler_poll(n)
    \/ \E n \in Node : Handler_poll_failing(n)

SpecFail == InitNet /\ [][NextFail]_vars

\* ------------------------------------------------------------ one handler
\* The handler of node A's connection with B, driven as the overlay may
\* drive it: commands from the behaviour, substreams opened by the peer,
\* substreams it asked for negotiated or refused, and polls whose futures
\* complete, stay pending or fail. A poll that returns Close ends the
\* connection and the handler with it.

\* Most substreams, asked for or open, in one run of the handler.
MaxStreams == 2

\* enum IpchessHandlerEventIn, with the two commands behaviour.rs constructs
IpchessHandlerEventIn ==
    {InChallenge(b) : b \in Bytes} \cup {InChallengeAccept(b) : b \in Bytes}
      \cup {InChallengeReveal(b) : b \in Bytes}
      \cup {InChallengeCanceled, InChallengeDeclined, InChallengePoisoned}

\* The frames the peer can send: ipchessproto::Message with one of the five
\* payloads, or with none.
Frames ==
    {Message(PayloadChallenge(b)) : b \in Bytes}
      \cup {Message(PayloadChallengeAccept(b)) : b \in Bytes}
      \cup {Message(PayloadChallengeReveal(b)) : b \in Bytes}
      \cup {Message(PayloadChallengeCancel), Message(PayloadChallengeDecline), Message(None)}

\* The substreams of the run and the ones still to be asked for.
StreamsInUse ==
    Len(streams)
      + Cardinality({k \in DOMAIN substream_states["A"] :
                       substream_states["A"][k].state = "PendingOpen"})

\* The behaviour's command reaches the handler (IpchessHandler::inject_event).
Handler_inject_event ==
    /\ "B" \in connected["A"]
    /\ \E event \in IpchessHandlerEventIn :
         /\ event # InChallengePoisoned => StreamsInUse < MaxStreams
         /\ handler_inject_event("A", event)
         /\ last' = Call("handler_inject_event", "A", "B", event, None)
    /\ UNCHANGED <<behaviour_vars, connected, now, actions_queue, streams, history>>

\* IpchessHandler::inject_fully_negotiated_inbound: the peer has opened a
\* substream, on which it writes msg.
inject_fully_negotiated_inbound ==
    /\ "B" \in connected["A"]
    /\ StreamsInUse < MaxStreams
    /\ \E msg \in Frames :
         streams' = Append(streams, [src |-> "B", msg |-> msg, written |-> TRUE,
                                     open |-> "Open"])
    /\ substream_states' =
         [substream_states EXCEPT !["A"] = Append(@, WaitingMessage(Len(streams) + 1))]
    /\ last' = Call("inject_fully_negotiated_inbound", "A", "B", None, None)
    /\ UNCHANGED <<behaviour_vars, connected, now, actions_queue, history,
                   handler_error_received, keep_alive>>

\* IpchessHandler::inject_fully_negotiated_outbound: a substream the handler
\* asked for is open; info is the frame of the request.
inject_fully_negotiated_outbound ==
    /\ "B" \in connected["A"]
    /\ \E i \in DOMAIN streams :
         /\ streams[i].open = "Requested"
         /\ streams' = [streams EXCEPT ![i].open = "Open"]
         /\ substream_states' = [substream_states EXCEPT !["A"] = Append(@, PendingSend(i))]
         /\ last' = Call("inject_fully_negotiated_outbound", "A", "B", i, None)
    /\ UNCHANGED <<behaviour_vars, connected, now, actions_queue, history,
                   handler_error_received, keep_alive>>

\* IpchessHandler::inject_dial_upgrade_error: a substream the handler asked
\* for could not be negotiated.
inject_dial_upgrade_error ==
    /\ "B" \in connected["A"]
    /\ \E i \in DOMAIN streams :
         /\ streams[i].open = "Requested"
         /\ streams' = [streams EXCEPT ![i].open = "Failed"]
         /\ last' = Call("inject_dial_upgrade_error", "A", "B", i, None)
    /\ keep_alive' = [keep_alive EXCEPT !["A"] = KeepAliveNo]
    /\ UNCHANGED <<behaviour_vars, connected, now, actions_queue, history,
                   substream_states, handler_error_received>>

\* What polling the futures held by the handler can yield: a write
\* completes, stays pending or fails; so does a read.
HandlerOutcomes ==
    LET held(state) == {substream_states["A"][k].stream :
                          k \in {j \in DOMAIN substream_states["A"] :
                                   substream_states["A"][j].state = state}}
    IN  {o \in [DOMAIN streams -> {"Pending", "Ok", "SubstreamWrite", "SubstreamRead"}] :
           \A i \in DOMAIN streams :
              /\ o[i] = "SubstreamWrite" => i \in held("PendingSend")
              /\ o[i] = "SubstreamRead" => i \in held("WaitingMessage")
              /\ o[i] = "Ok" => i \in held("PendingSend") \cup held("WaitingMessage")}

\* IpchessHandler::poll, and what the overlay does with the result as far
\* as the handler is concerned: it starts the negotiation of the substream
\* asked for, or closes the connection.
IpchessHandler_poll ==
    /\ "B" \in connected["A"]
    /\ \E outcome \in HandlerOutcomes :
         LET r == handler_poll("A", outcome)
             wrote == [i \in DOMAIN streams |->
                         [streams[i] EXCEPT !.written = @ \/ i \in r.written]]
         IN
         /\ keep_alive' = [keep_alive EXCEPT !["A"] = r.keep_alive]
         /\ substream_states' = [substream_states EXCEPT !["A"] = r.states]
         /\ streams' =
              IF r.ret.type = "OutboundSubstreamRequest"
              THEN Append(wrote, [src |-> "A", msg |-> r.ret.msg, written |-> FALSE,
                                  open |-> "Requested"])
              ELSE wrote
         /\ connected' =
              IF r.ret.type = "Close"
              THEN [connected EXCEPT !["A"] = @ \ {"B"}]
              ELSE connected
         /\ last' = Call("handler_poll", "A", "B", outcome, r.ret)
    /\ UNCHANGED <<behaviour_vars, now, actions_queue, history, handler_error_received>>

NextHandler ==
    \/ Handler_inject_event
    \/ inject_fully_negotiated_inbound
    \/ inject_fully_negotiated_outbound
    \/ inject_dial_upgrade_error
    \/ IpchessHandler_poll

SpecHandler == InitNet /\ [][NextHandler]_vars

\* ---------------------------------------------------------------- framing
\* The bytes of a frame on a substream. A byte string is its literal first
\* bytes, head, followed by len bytes of the content named fill: the
\* commitment, random or preimage, whose bytes are not looked at.

\* The number of values of a u16 (send_message: msg_len as u16).
U16 == 65536

\* The length of a preimage, a random and a SHA-256 digest
\* ([u8; 32] in challenge_peer and accept_peer_challenge).
DigestLen == 32

\* The longest field tried. The message with a field of 65527 bytes
\* encodes to U16 - 1 bytes, the longest that fits.
MaxFieldLen == 65529

FieldLens == {0, DigestLen, MaxFieldLen - 2, MaxFieldLen - 1, MaxFieldLen}

\* Vec<u8> contents; the empty one has no content to name.
ByteVecs ==
    {[len |-> l, fill |-> b] : l \in FieldLens \ {0}, b \in Bytes}
      \cup {[len |-> 0, fill |-> 0]}

EmptyBuf == [head |-> <<>>, len |-> 0, fill |-> 0]
BufLen(buf) == Len(buf.head) + buf.len

\* The first n bytes of a buffer, and the buffer without them.
TakeBytes(buf, n) ==
    IF n <= Len(buf.head)
    THEN [head |-> SubSeq(buf.head, 1, n), len |-> 0, fill |-> 0]
    ELSE IF n - Len(buf.head) >= buf.len THEN buf
    ELSE [buf EXCEPT !.len = n - Len(buf.head)]

DropBytes(buf, n) ==
    IF n <= Len(buf.head)
    THEN IF n = Len(buf.head) /\ buf.len = 0 THEN EmptyBuf
         ELSE [buf EXCEPT !.head = SubSeq(buf.head, n + 1, Len(buf.head))]
    ELSE IF n - Len(buf.head) >= buf.len THEN EmptyBuf
    ELSE [head |-> <<>>, len |-> buf.len - (n - Len(buf.head)), fill |-> buf.fill]

\* prost::encoding::encode_varint: seven bits a byte, lowest first.
RECURSIVE Varint(_)
Varint(n) ==
    IF n < 128 THEN <<n>> ELSE <<(n % 128) + 128>> \o Varint(n \div 128)

\* prost::encoding::decode_varint on the literal bytes: the value and the
\* number of bytes taken, or no value when the bytes end first.
RECURSIVE DecodeVarint(_, _)
DecodeVarint(bytes, k) ==
    IF k > Len(bytes) THEN [ok |-> FALSE]
    ELSE IF bytes[k] < 128 THEN [ok |-> TRUE, value |-> bytes[k], next |-> k + 1]
    ELSE LET rest == DecodeVarint(bytes, k + 1) IN
         IF rest.ok
         THEN [ok |-> TRUE, value |-> (bytes[k] - 128) + 128 * rest.value, next |-> rest.next]
         ELSE rest

\* The key of a length-delimited field: (tag << 3) | 2.
FieldKey(tag) == tag * 8 + 2

\* The tags of message::Payload (ipchessproto.rs:30-41).
PayloadTag(type) ==
    CASE type = "Challenge" -> 1
      [] type = "ChallengeAccept" -> 2
      [] type = "ChallengeReveal" -> 3
      [] type = "ChallengeCancel" -> 4
      [] type = "ChallengeDecline" -> 5

PayloadTypeOf(tag) ==
    CASE tag = 1 -> "Challenge"
      [] tag = 2 -> "ChallengeAccept"
      [] tag = 3 -> "ChallengeReveal"
      [] tag = 4 -> "ChallengeCancel"
      [] tag = 5 -> "ChallengeDecline"

\* prost encoding of the message inside the payload: one bytes field with
\* tag 1, left out when empty; nothing for ChallengeCancel and
\* ChallengeDecline.
EncodePayload(payload) ==
    IF payload.type \in {"ChallengeCancel", "ChallengeDecline"} \/ payload.bytes.len = 0
    THEN EmptyBuf
    ELSE [head |-> <<FieldKey(1)>> \o Varint(payload.bytes.len),
          len |-> payload.bytes.len, fill |-> payload.bytes.fill]

\* ipchessproto::Message::encode: nothing without payload, else the key of
\* the payload's tag, the length of the inner message and the inner
\* message.
Encode(msg) ==
    IF msg.payload = None THEN EmptyBuf
    ELSE LET inner == EncodePayload(msg.payload) IN
         [head |-> <<FieldKey(PayloadTag(msg.payload.type))>> \o Varint(BufLen(inner))
                     \o inner.head,
          len |-> inner.len, fill |-> inner.fill]

\* Result<_, IpchessHandlerError>
Ok(value) == [result |-> "Ok", value |-> value]
Err(error) == [result |-> "Err", error |-> error]

\* The message inside the payload, decoded from buf: the bytes field, empty
\* when absent.
DecodePayload(type, buf) ==
    IF type \in {"ChallengeCancel", "ChallengeDecline"}
    THEN IF BufLen(buf) = 0 THEN Ok([type |-> type]) ELSE Err("ProtobufDecode")
    ELSE IF BufLen(buf) = 0 THEN Ok([type |-> type, bytes |-> [len |-> 0, fill |-> 0]])
    ELSE IF buf.head = <<>> \/ buf.head[1] # FieldKey(1) THEN Err("ProtobufDecode")
    ELSE LET field_len == DecodeVarint(buf.head, 2) IN
         IF ~field_len.ok \/ field_len.next # Len(buf.head) + 1
              \/ field_len.value # buf.len
         THEN Err("ProtobufDecode")
         ELSE Ok([type |-> type, bytes |-> [len |-> buf.len, fill |-> buf.fill]])

\* ipchessproto::Message::decode on the bytes send_message can have
\* produced, whole or cut short: an empty buffer is the message without
\* payload; a buffer that ends before the length it announces is an error.
Decode(buf) ==
    IF BufLen(buf) = 0 THEN Ok(Message(None))
    ELSE IF buf.head = <<>> \/ buf.head[1] \notin {FieldKey(tag) : tag \in 1 .. 5}
    THEN Err("ProtobufDecode")
    ELSE LET inner_len == DecodeVarint(buf.head, 2) IN
         IF ~inner_len.ok THEN Err("ProtobufDecode")
         ELSE LET inner == DropBytes(buf, inner_len.next - 1) IN
              IF BufLen(inner) # inner_len.value THEN Err("ProtobufDecode")
              ELSE LET payload == DecodePayload(PayloadTypeOf((buf.head[1] - 2) \div 8), inner)
                   IN  IF payload.result = "Ok" THEN Ok(Message(payload.value)) ELSE payload

\* Variant: the length goes out low byte first.
U16LittleEndian(n) == <<n % 256, n \div 256>>

\* u16::to_be_bytes and u16::from_be_bytes
U16BigEndian(n) == <<n \div 256, n % 256>>
U16FromBigEndian(bytes) == bytes[1] * 256 + bytes[2]

\* send_message: the bytes written to the substream, the length as u16
\* first.
send_message(msg) ==
    LET buf == Encode(msg)
        msg_len == BufLen(buf)
    IN  [buf EXCEPT !.head = U16BigEndian(msg_len % U16) \o @]

\* read_message on a substream that holds the bytes wire and is closed
\* after them.
read_message(wire) ==
    IF BufLen(wire) < 2 THEN Err("SubstreamRead")
    ELSE LET msg_len == U16FromBigEndian(TakeBytes(wire, 2).head)
             rest == DropBytes(wire, 2)
         IN  IF BufLen(rest) < msg_len THEN Err("SubstreamRead")
             ELSE Decode(TakeBytes(rest, msg_len))

\* The messages send_message is given here: every payload with every
\* content, and none.
FramingMessages ==
    {Message(PayloadChallenge(v)) : v \in ByteVecs}
      \cup {Message(PayloadChallengeAccept(v)) : v \in ByteVecs}
      \cup {Message(PayloadChallengeReveal(v)) : v \in ByteVecs}
      \cup {Message(PayloadChallengeCancel), Message(PayloadChallengeDecline), Message(None)}

\* A substream is opened and send_message writes msg to it.
Framing_send ==
    /\ Len(streams) < MaxStreams
    /\ \E msg \in FramingMessages :
         /\ streams' = Append(streams, [src |-> "A", msg |-> msg, written |-> TRUE,
                                        wire |-> send_message(msg)])
         /\ last' = Call("send_message", "A", "B", msg, Ok(None))
    /\ UNCHANGED <<behaviour_vars, connected, now, actions_queue, handler_vars, history>>

\* The other end reads a substream with read_message.
Framing_read ==
    /\ \E i \in DOMAIN streams :
         last' = Call("read_message", "B", "A", i, read_message(streams[i].wire))
    /\ UNCHANGED <<behaviour_vars, connected, now, actions_queue, handler_vars, history,
                   streams>>

NextFraming == Framing_send \/ Framing_read

SpecFraming == InitNet /\ [][NextFraming]_vars

\* ================================================================ claims
\* The actions a step has pushed onto node n's queue: what a poll that
\* found the queue empty left in it, and else what was appended.
Queued(n) ==
    IF last'.op = "poll" /\ last'.node = n
    THEN IF events[n] = <<>> THEN events'[n] ELSE <<>>
    ELSE SubSeq(events'[n], Len(events[n]) + 1, Len(events'[n]))

Count(seq, a) == Cardinality({i \in DOMAIN seq : seq[i] = a})

IsCall(call, op, p) == call.op = op /\ call.node = "A" /\ call.peer = p

IsInject(call, p, type) ==
    /\ IsCall(call, "inject_event", p)
    /\ call.arg.type = type

AcceptedEvents(seq, p) ==
    {i \in DOMAIN seq : /\ seq[i].action = "GenerateEvent"
                        /\ seq[i].event.type = "ChallengeAccepted"
                        /\ seq[i].event.peer_id = p}

\* The domain events node n has produced, oldest first: those already handed
\* to the application's queue, then those still in the behaviour's queue.
RECURSIVE GeneratedEvents(_)
GeneratedEvents(seq) ==
    IF seq = <<>> THEN <<>>
    ELSE IF Head(seq).action = "GenerateEvent"
         THEN <<Head(seq).event>> \o GeneratedEvents(Tail(seq))
         ELSE GeneratedEvents(Tail(seq))

Emitted(n) == actions_queue[n] \o GeneratedEvents(events[n])

\* The history of the happy path with a the challenger: the only calls
\* that changed a behaviour are a's challenge, the Challenge frame with
\* commitment c at the other node, its accept, the ChallengeAccept frame
\* with random r at a, and the ChallengeReveal frame with preimage x at the
\* other node.
HappyPath(a, c, r, x) ==
    LET b == Other(a) IN
    history = << Call("challenge_peer", a, b, None, None),
                 Call("inject_event", b, a, OutChallengeReceived(c), None),
                 Call("accept_peer_challenge", b, a, None, None),
                 Call("inject_event", a, b, OutChallengeAccepted(r), None),
                 Call("inject_event", b, a, OutChallengeRevealReceived(x), None) >>

\* C1: after the happy path between two honest connected nodes, with nothing
\* else in between, the challenger has produced exactly
\* ChallengeAccepted{b, x, r}, the challenged node PeerChallenge{a} and then
\* ChallengeAccepted{a, x, r} with the same preimage and random, the
\* commitment was the hash of the preimage, and the four slots are empty.
C1_HappyPath ==
    \A a \in Node : \A c, r, x \in Bytes :
      HappyPath(a, c, r, x) =>
        LET b == Other(a) IN
        /\ c = Sha2_256(x)
        /\ Emitted(a) = << ChallengeAccepted(b, x, r) >>
        /\ Emitted(b) = << PeerChallenge(a), ChallengeAccepted(a, x, r) >>
        /\ outbound_challenges[a][b] = None
        /\ inbound_challenges[a][b] = None
        /\ outbound_challenges[b][a] = None
        /\ inbound_challenges[b][a] = None

C1_Witness ==
    \E c, r, x \in Bytes :
      /\ HappyPath("A", c, r, x)
      /\ events["A"] = <<>>
      /\ events["B"] = <<>>
      /\ actions_queue["A"] = << ChallengeAccepted("B", x, r) >>
      /\ actions_queue["B"] = << PeerChallenge("A"), ChallengeAccepted("A", x, r) >>

\* C2: a reveal from P queues ChallengeAccepted{P,(preimage, random)} only
\* if P's inbound slot is PendingPreimage and the SHA-256 of the revealed
\* preimage equals the commitment stored in it; the event then carries the
\* revealed preimage and the slot's random. A reveal whose digest differs
\* queues no ChallengeAccepted.
C2_AcceptedOnlyIfCommitmentMatches ==
    [][\A p \in Remote :
         IsInject(last', p, "ChallengeRevealReceived") =>
           LET slot == inbound_challenges["A"][p]
               preimage == last'.arg.bytes
           IN  \A i \in AcceptedEvents(Queued("A"), p) :
                 /\ slot.tag = "PendingPreimage"
                 /\ Sha2_256(preimage) = slot.commitment
                 /\ Queued("A")[i].event = ChallengeAccepted(p, preimage, slot.random)
      ]_vars

\* C2 witness: a matching reveal has just queued ChallengeAccepted.
C2_Witness ==
    /\ IsInject(last, "B", "ChallengeRevealReceived")
    /\ events["A"] # <<>>
    /\ AcceptedEvents(events["A"], "B") # {}

\* C3: every ChallengeReveal handler command queued for P is queued while
\* a ChallengeAccepted frame from P is processed, with P's outbound slot
\* occupied at that moment, and carries the preimage stored in that slot.
C3_RevealCarriesStoredPreimage ==
    [][\A i \in DOMAIN Queued("A") :
         LET a == Queued("A")[i] IN
         (a.action = "NotifyHandler" /\ a.event.type = "ChallengeReveal") =>
           /\ IsInject(last', a.peer_id, "ChallengeAccepted")
           /\ outbound_challenges["A"][a.peer_id].tag = "Some"
           /\ a.event.bytes = outbound_challenges["A"][a.peer_id].preimage
      ]_vars

\* C3 witness: a reveal command is in the queue.
C3_Witness ==
    \E i \in DOMAIN events["A"] :
      /\ events["A"][i].action = "NotifyHandler"
      /\ events["A"][i].event.type = "ChallengeReveal"

\* C4: a reveal from P whose digest differs from the commitment of P's
\* PendingPreimage slot clears the slot and queues exactly the
\* ChallengePoisoned command for P's handler followed by one
\* Error(ChallengeCommitmentPreimageMismatch) event, and no
\* ChallengeAccepted.
C4_TamperedReveal ==
    [][\A p \in Remote :
         (/\ IsInject(last', p, "ChallengeRevealReceived")
          /\ inbound_challenges["A"][p].tag = "PendingPreimage"
          /\ Sha2_256(last'.arg.bytes) # inbound_challenges["A"][p].commitment) =>
           /\ inbound_challenges'["A"][p] = None
           /\ Queued("A") = <<NotifyHandler(p, InChallengePoisoned),
                              GenerateEvent(ChallengeCommitmentPreimageMismatch)>>
           /\ outbound_challenges' = outbound_challenges
      ]_vars

\* C4 witness: a reveal has just been answered with the mismatch error.
C4_Witness ==
    /\ IsInject(last, "B", "ChallengeRevealReceived")
    /\ Len(events["A"]) >= 2
    /\ events["A"][Len(events["A"])] = GenerateEvent(ChallengeCommitmentPreimageMismatch)
    /\ events["A"][Len(events["A"]) - 1] = NotifyHandler("B", InChallengePoisoned)

\* The error event the specification names for a premature reveal; the
\* enum IpchessError has no such variant.
ChallengePoisonedError == [type |-> "Error", error |-> "ChallengePoisoned"]

\* C5: a reveal from P while P's inbound slot is Received clears the slot,
\* queues the ChallengePoisoned command for P's handler and queues an
\* Error(ChallengePoisoned) event.
C5_RevealBeforeAccept ==
    [][\A p \in Remote :
         (/\ IsInject(last', p, "ChallengeRevealReceived")
          /\ inbound_challenges["A"][p].tag = "Received") =>
           /\ inbound_challenges'["A"][p] = None
           /\ Count(Queued("A"), NotifyHandler(p, InChallengePoisoned)) = 1
           /\ Count(Queued("A"), GenerateEvent(ChallengePoisonedError)) = 1
      ]_vars

\* The dial action the specification names for a challenge to a peer that is
\* not connected; the behaviour constructs no such action.
DialPeer(p) == [action |-> "DialPeer", peer_id |-> p, condition |-> "Disconnected"]

\* C6: a challenge to a peer that is not connected, with the outbound slot
\* empty, queues one dial action for the peer and no handler command.
C6_ReconnectDrain ==
    [][\A p \in Remote :
         (/\ IsCall(last', "challenge_peer", p)
          /\ p \notin connected["A"]
          /\ outbound_challenges["A"][p].tag = "None") =>
           /\ Count(Queued("A"), DialPeer(p)) = 1
           /\ \A i \in DOMAIN Queued("A") : Queued("A")[i].action # "NotifyHandler"
      ]_vars

\* C7: challenge(P) with P's outbound slot occupied leaves the slot (its
\* preimage and timestamp) and the queue unchanged; challenge(P) with the
\* slot empty queues exactly one Challenge command; so of two consecutive
\* challenge(P) calls the second queues nothing.
C7_ChallengeIdempotent ==
    [][\A p \in Remote :
         IsCall(last', "challenge_peer", p) =>
           /\ outbound_challenges["A"][p].tag = "Some" =>
                /\ outbound_challenges' = outbound_challenges
                /\ events' = events
           /\ outbound_challenges["A"][p].tag = "None" =>
                /\ Len(Queued("A")) = 1
                /\ Queued("A")[1].action = "NotifyHandler"
                /\ Queued("A")[1].event.type = "Challenge"
           /\ IsCall(last, "challenge_peer", p) => Queued("A") = <<>>
           /\ outbound_challenges'["A"][p].tag = "Some"
      ]_vars

\* C7 witness: a challenge has just been made to a peer whose slot was
\* filled at an earlier instant, with the first Challenge command still
\* queued.
C7_Witness ==
    /\ IsCall(last, "challenge_peer", "B")
    /\ outbound_challenges["A"]["B"].tag = "Some"
    /\ outbound_challenges["A"]["B"].timestamp < now
    /\ Len(events["A"]) = 1
    /\ events["A"][1].action = "NotifyHandler"
    /\ events["A"][1].event.type = "Challenge"

\* C8: cancel(P) with P's outbound slot occupied clears it and queues
\* exactly one ChallengeCancel command; with the slot empty it changes and
\* queues nothing; a challenge(P) that follows a cancel(P) is not ignored:
\* it stores a preimage stamped now and queues one Challenge command whose
\* commitment is the SHA-256 of the preimage it stored.
C8_CancelCleanliness ==
    [][\A p \in Remote :
         /\ IsCall(last', "cancel_challenge", p) =>
              /\ outbound_challenges'["A"][p] = None
              /\ inbound_challenges' = inbound_challenges
              /\ outbound_challenges["A"][p].tag = "Some" =>
                   Queued("A") = <<NotifyHandler(p, InChallengeCanceled)>>
              /\ outbound_challenges["A"][p].tag = "None" =>
                   /\ Queued("A") = <<>>
                   /\ outbound_challenges' = outbound_challenges
         /\ (IsCall(last, "cancel_challenge", p) /\ IsCall(last', "challenge_peer", p)) =>
              /\ outbound_challenges'["A"][p].tag = "Some"
              /\ outbound_challenges'["A"][p].timestamp = now
              /\ Queued("A") = <<NotifyHandler(p, InChallenge(
                                    Sha2_256(outbound_challenges'["A"][p].preimage)))>>
      ]_vars

\* C8 witness: a cancel command and, behind it, the Challenge command of
\* the challenge that followed it.
C8_Witness ==
    /\ IsCall(last, "challenge_peer", "B")
    /\ Len(events["A"]) = 2
    /\ events["A"][1] = NotifyHandler("B", InChallengeCanceled)
    /\ events["A"][2].event.type = "Challenge"
    /\ outbound_challenges["A"]["B"].tag = "Some"

\* C9: a poll that finds the queue empty clears every outbound slot whose
\* age exceeds challenge_accept_timeout and queues exactly one
\* Error(ChallengeTimeout{P, Outbound}) for it; no step queues that event
\* for a slot that is empty or whose age does not exceed the timeout.
C9_OutboundTimeout ==
    [][\A p \in Remote :
         LET slot == outbound_challenges["A"][p]
             expired == slot.tag = "Some" /\ now - slot.timestamp > challenge_accept_timeout
             timeout == GenerateEvent(ChallengeTimeout(p, "Outbound"))
         IN  /\ (IsCall(last', "poll", "A") /\ events["A"] = <<>> /\ expired) =>
                  /\ outbound_challenges'["A"][p] = None
                  /\ Count(events'["A"], timeout) = 1
             /\ Count(Queued("A"), timeout) > 0 =>
                  /\ IsCall(last', "poll", "A")
                  /\ expired
             /\ (IsCall(last', "poll", "A") /\ ~expired) =>
                  outbound_challenges'["A"][p] = slot
      ]_vars

\* C9 witness: a poll has just queued the outbound timeout.
C9_Witness ==
    /\ IsCall(last, "poll", "A")
    /\ last.ret = Pending
    /\ Count(events["A"], GenerateEvent(ChallengeTimeout("B", "Outbound"))) = 1
    /\ outbound_challenges["A"]["B"] = None

\* C10: accept stamps the PendingPreimage slot with the current instant; a
\* poll that finds the queue empty clears a PendingPreimage slot whose age
\* exceeds challenge_preimage_timeout and queues exactly one
\* Error(ChallengeTimeout{P, Inbound}); no step queues that event
\* otherwise, and no poll changes an inbound slot that is Received, or
\* PendingPreimage and not older than the timeout.
C10_InboundTimeout ==
    [][\A p \in Remote :
         LET slot == inbound_challenges["A"][p]
             expired == /\ slot.tag = "PendingPreimage"
                        /\ now - slot.timestamp > challenge_preimage_timeout
             timeout == GenerateEvent(ChallengeTimeout(p, "Inbound"))
         IN  /\ (IsCall(last', "poll", "A") /\ events["A"] = <<>> /\ expired) =>
                  /\ inbound_challenges'["A"][p] = None
                  /\ Count(events'["A"], timeout) = 1
             /\ Count(Queued("A"), timeout) > 0 =>
                  /\ IsCall(last', "poll", "A")
                  /\ expired
             /\ (IsCall(last', "poll", "A") /\ ~expired) =>
                  inbound_challenges'["A"][p] = slot
             /\ (IsCall(last', "accept_peer_challenge", p) /\ slot.tag = "Received") =>
                  /\ inbound_challenges'["A"][p].tag = "PendingPreimage"
                  /\ inbound_challenges'["A"][p].timestamp = now
      ]_vars

\* C10 witness: a poll has just queued the inbound timeout.
C10_Witness ==
    /\ IsCall(last, "poll", "A")
    /\ last.ret = Pending
    /\ Count(events["A"], GenerateEvent(ChallengeTimeout("B", "Inbound"))) = 1
    /\ inbound_challenges["A"]["B"] = None

\* A frame with this payload was written on a substream opened by node n.
FrameWritten(n, payload) ==
    \E i \in DOMAIN streams :
       /\ streams[i].src = n
       /\ streams[i].msg = Message(payload)
       /\ streams[i].written

\* The history up to the decline: a's challenge, the Challenge frame with
\* commitment c at the other node, and that node's decline.
DeclineCalled(a, c) ==
    LET b == Other(a) IN
    << Call("challenge_peer", a, b, None, None),
       Call("inject_event", b, a, OutChallengeReceived(c), None),
       Call("decline_peer_challenge", b, a, None, None) >>

DeclineDelivered(a, c) ==
    DeclineCalled(a, c)
      \o << Call("inject_event", a, Other(a), OutChallengeDeclined, None) >>

CancelCalled(a, c) ==
    LET b == Other(a) IN
    << Call("challenge_peer", a, b, None, None),
       Call("inject_event", b, a, OutChallengeReceived(c), None),
       Call("cancel_challenge", a, b, None, None) >>

CancelDelivered(a, c) ==
    CancelCalled(a, c)
      \o << Call("inject_event", Other(a), a, OutChallengeCanceled, None) >>

C13_HonestPeersNeverPoisoned ==
    \A n \in Node :
      /\ \A i \in DOMAIN events[n] :
            events[n][i] # NotifyHandler(Other(n), InChallengePoisoned)
      /\ ~handler_error_received[n]
      /\ \A i \in DOMAIN Emitted(n) :
            Emitted(n)[i] # ChallengeCommitmentPreimageMismatch

\* The actions in seq that name peer q: handler commands for q and events
\* about q.
ActionsAbout(seq, q) ==
    {i \in DOMAIN seq :
       \/ seq[i].action = "NotifyHandler" /\ seq[i].peer_id = q
       \/ /\ seq[i].action = "GenerateEvent"
          /\ "peer_id" \in DOMAIN seq[i].event
          /\ seq[i].event.peer_id = q}

\* C14: a command or an inbound frame concerning peer p, a mismatched or a
\* premature reveal included, leaves both slots of every other peer q as
\* they were and queues no handler command for q and no event about q.
C14_PeerIsolation ==
    [][\A p \in PeersOf("A") : \A q \in PeersOf("A") \ {p} :
         (last'.op \in Commands \cup {"inject_event"} /\ last'.node = "A" /\ last'.peer = p) =>
           /\ outbound_challenges'["A"][q] = outbound_challenges["A"][q]
           /\ inbound_challenges'["A"][q] = inbound_challenges["A"][q]
           /\ ActionsAbout(Queued("A"), q) = {}
      ]_vars

\* A mismatched reveal by M was processed while both slots of B are occupied.
C14_Witness ==
    /\ IsInject(last, "M", "ChallengeRevealReceived")
    /\ Len(events["A"]) >= 2
    /\ events["A"][Len(events["A"])] = GenerateEvent(ChallengeCommitmentPreimageMismatch)
    /\ events["A"][Len(events["A"]) - 1] = NotifyHandler("M", InChallengePoisoned)
    /\ outbound_challenges["A"]["B"].tag = "Some"
    /\ inbound_challenges["A"]["B"].tag = "PendingPreimage"

\* C15: a poll that finds the queue non-empty returns Ready with the oldest
\* action and removes it, and a poll returns Pending only with the queue
\* empty when it returns.
C15_PollReadyOrQueueEmpty ==
    [][IsCall(last', "poll", "A") =>
         /\ events["A"] # <<>> =>
               /\ last'.ret = Ready(Head(events["A"]))
               /\ events'["A"] = Tail(events["A"])
         /\ last'.ret = Pending => events'["A"] = <<>>
      ]_vars

\* C16: an accept on a Received slot moves it to PendingPreimage with the
\* same commitment and a random, and queues exactly one ChallengeAccept
\* command carrying that random; the ChallengeAccepted event a later reveal
\* produces reports the random stored in the slot.
C16_AcceptStoresWhatItSends ==
    [][\A p \in Remote :
         LET slot == inbound_challenges["A"][p] IN
         /\ (IsCall(last', "accept_peer_challenge", p) /\ slot.tag = "Received") =>
               \E random \in Bytes :
                 /\ inbound_challenges'["A"][p] =
                      PendingPreimage(slot.commitment, random, now)
                 /\ Queued("A") = << NotifyHandler(p, InChallengeAccept(random)) >>
         /\ IsInject(last', p, "ChallengeRevealReceived") =>
               \A i \in AcceptedEvents(Queued("A"), p) :
                 /\ slot.tag = "PendingPreimage"
                 /\ Queued("A")[i].event.random = slot.random
      ]_vars

C16_Witness ==
    /\ IsCall(last, "accept_peer_challenge", "B")
    /\ inbound_challenges["A"]["B"].tag = "PendingPreimage"
    /\ inbound_challenges["A"]["B"].timestamp = now
    /\ events["A"] =
         << NotifyHandler("B", InChallengeAccept(inbound_challenges["A"]["B"].random)) >>

\* C17: an accept on a slot that is empty or already accepted changes
\* neither the slot (commitment, random, timestamp) nor the queue.
C17_AcceptIgnoredUnlessReceived ==
    [][\A p \in Remote :
         (/\ IsCall(last', "accept_peer_challenge", p)
          /\ inbound_challenges["A"][p].tag # "Received") =>
           /\ inbound_challenges'["A"][p] = inbound_challenges["A"][p]
           /\ events'["A"] = events["A"]
           /\ outbound_challenges' = outbound_challenges
      ]_vars

\* An accept was called on a slot accepted earlier: the queue is empty and
\* the slot's timestamp is older than the clock.
C17_Witness ==
    /\ IsCall(last, "accept_peer_challenge", "B")
    /\ inbound_challenges["A"]["B"].tag = "PendingPreimage"
    /\ inbound_challenges["A"]["B"].timestamp < now
    /\ events["A"] = <<>>

\* C18: a decline on an occupied inbound slot, accepted or not, empties it
\* and queues exactly one ChallengeDeclined command; on an empty slot it
\* changes nothing and queues nothing.
C18_Decline ==
    [][\A p \in Remote :
         IsCall(last', "decline_peer_challenge", p) =>
           /\ inbound_challenges["A"][p].tag # "None" =>
                 /\ inbound_challenges'["A"][p] = None
                 /\ Queued("A") = << NotifyHandler(p, InChallengeDeclined) >>
                 /\ outbound_challenges' = outbound_challenges
           /\ inbound_challenges["A"][p].tag = "None" =>
                 /\ events'["A"] = events["A"]
                 /\ inbound_challenges' = inbound_challenges
                 /\ outbound_challenges' = outbound_challenges
      ]_vars

\* A decline was called after an accept whose command is still queued.
C18_Witness ==
    /\ IsCall(last, "decline_peer_challenge", "B")
    /\ inbound_challenges["A"]["B"] = None
    /\ \E random \in Bytes :
         events["A"] = << NotifyHandler("B", InChallengeAccept(random)),
                          NotifyHandler("B", InChallengeDeclined) >>

\* C19: a Challenge frame from p sets p's inbound slot to Received with the
\* new commitment and queues PeerChallenge{p}, whatever the slot held; a
\* reveal that finds the slot Received produces no ChallengeAccepted.
C19_ChallengeReceivedOverwrites ==
    [][\A p \in Remote :
         /\ IsInject(last', p, "ChallengeReceived") =>
               /\ inbound_challenges'["A"][p] = Received(last'.arg.bytes)
               /\ Queued("A") = << GenerateEvent(PeerChallenge(p)) >>
         /\ (/\ IsInject(last', p, "ChallengeRevealReceived")
             /\ inbound_challenges["A"][p].tag = "Received") =>
               AcceptedEvents(Queued("A"), p) = {}
      ]_vars

\* A Challenge frame arrived on a slot accepted earlier: the accept command
\* is still queued, and the slot is Received again.
C19_Witness ==
    /\ IsInject(last, "B", "ChallengeReceived")
    /\ inbound_challenges["A"]["B"] = Received(last.arg.bytes)
    /\ \E random \in Bytes :
         events["A"] = << NotifyHandler("B", InChallengeAccept(random)),
                          GenerateEvent(PeerChallenge("B")) >>

\* C20: a ChallengeAccepted or ChallengeDeclined frame that finds the
\* outbound slot empty, and a ChallengeRevealReceived or ChallengeCanceled
\* frame that finds the inbound slot empty, change no slot and queue nothing.
C20_StaleFramesIgnored ==
    [][\A p \in Remote :
         (\/ /\ \/ IsInject(last', p, "ChallengeAccepted")
                \/ IsInject(last', p, "ChallengeDeclined")
             /\ outbound_challenges["A"][p].tag = "None"
          \/ /\ \/ IsInject(last', p, "ChallengeRevealReceived")
                \/ IsInject(last', p, "ChallengeCanceled")
             /\ inbound_challenges["A"][p].tag = "None") =>
           /\ events'["A"] = events["A"]
           /\ inbound_challenges' = inbound_challenges
           /\ outbound_challenges' = outbound_challenges
      ]_vars

\* A decline frame was processed with no challenge outstanding, while an
\* inbound challenge of the same peer is held.
C20_Witness ==
    /\ IsInject(last, "B", "ChallengeDeclined")
    /\ outbound_challenges["A"]["B"] = None
    /\ inbound_challenges["A"]["B"].tag = "Received"
    /\ events["A"] = <<>>

\* C21: the two slots of a peer are independent. A challenge, a cancel and
\* a ChallengeAccepted or ChallengeDeclined frame leave the peer's inbound
\* slot as it was; an accept, a decline and a ChallengeReceived,
\* ChallengeRevealReceived or ChallengeCanceled frame leave its outbound
\* slot as it was; a poll changes a slot only if that slot's own timer
\* expired.
C21_SlotsIndependent ==
    [][\A p \in Remote :
         LET outbound == outbound_challenges["A"][p]
             inbound == inbound_challenges["A"][p]
         IN
         /\ (\/ IsCall(last', "challenge_peer", p)
             \/ IsCall(last', "cancel_challenge", p)
             \/ IsInject(last', p, "ChallengeAccepted")
             \/ IsInject(last', p, "ChallengeDeclined")) =>
               inbound_challenges'["A"][p] = inbound
         /\ (\/ IsCall(last', "accept_peer_challenge", p)
             \/ IsCall(last', "decline_peer_challenge", p)
             \/ IsInject(last', p, "ChallengeReceived")
             \/ IsInject(last', p, "ChallengeRevealReceived")
             \/ IsInject(last', p, "ChallengeCanceled")) =>
               outbound_challenges'["A"][p] = outbound
         /\ IsCall(last', "poll", "A") =>
               /\ inbound_challenges'["A"][p] # inbound =>
                     /\ inbound.tag = "PendingPreimage"
                     /\ now - inbound.timestamp > challenge_preimage_timeout
               /\ outbound_challenges'["A"][p] # outbound =>
                     /\ outbound.tag = "Some"
                     /\ now - outbound.timestamp > challenge_accept_timeout
      ]_vars

\* The peer's accept of the outbound challenge was processed while its own
\* challenge, accepted here, is still awaiting the reveal.
C21_Witness ==
    /\ IsInject(last, "B", "ChallengeAccepted")
    /\ outbound_challenges["A"]["B"] = None
    /\ inbound_challenges["A"]["B"].tag = "PendingPreimage"
    /\ Len(events["A"]) >= 1
    /\ events["A"][Len(events["A"])].action = "GenerateEvent"
    /\ events["A"][Len(events["A"])].event.type = "ChallengeAccepted"

\* C22 as stated: every poll, whether or not actions are queued, clears the
\* outbound and the PendingPreimage slots whose timeout has passed.
C22_TimersSampledOnEveryPoll ==
    [][\A p \in Remote :
         LET outbound == outbound_challenges["A"][p]
             inbound == inbound_challenges["A"][p]
         IN
         IsCall(last', "poll", "A") =>
           /\ (outbound.tag = "Some"
                 /\ now - outbound.timestamp > challenge_accept_timeout) =>
                 outbound_challenges'["A"][p] = None
           /\ (inbound.tag = "PendingPreimage"
                 /\ now - inbound.timestamp > challenge_preimage_timeout) =>
                 inbound_challenges'["A"][p] = None
      ]_vars

\* C23: the queue is first in, first out. A poll that finds actions queued
\* returns the oldest and leaves the others in order; every other step
\* keeps what is queued and adds at the end; the reveal command is queued
\* before the ChallengeAccepted event and the poison command before the
\* mismatch error.
C23_ActionsFifo ==
    [][/\ (IsCall(last', "poll", "A") /\ events["A"] # <<>>) =>
            /\ last'.ret = Ready(Head(events["A"]))
            /\ events'["A"] = Tail(events["A"])
       /\ ~IsCall(last', "poll", "A") =>
            /\ Len(events'["A"]) >= Len(events["A"])
            /\ SubSeq(events'["A"], 1, Len(events["A"])) = events["A"]
       /\ \A p \in Remote :
            /\ (IsInject(last', p, "ChallengeAccepted") /\ Queued("A") # <<>>) =>
                  /\ Len(Queued("A")) = 2
                  /\ Queued("A")[1].action = "NotifyHandler"
                  /\ Queued("A")[1].event.type = "ChallengeReveal"
                  /\ Queued("A")[2].action = "GenerateEvent"
                  /\ Queued("A")[2].event.type = "ChallengeAccepted"
            /\ (/\ IsInject(last', p, "ChallengeRevealReceived")
                /\ Count(Queued("A"), GenerateEvent(ChallengeCommitmentPreimageMismatch)) > 0) =>
                  Queued("A") = << NotifyHandler(p, InChallengePoisoned),
                                  GenerateEvent(ChallengeCommitmentPreimageMismatch) >>
      ]_vars

\* A poll has returned the reveal command; the ChallengeAccepted event is
\* next in the queue.
C23_Witness ==
    /\ IsCall(last, "poll", "A")
    /\ last.ret # Pending
    /\ last.ret.value.action = "NotifyHandler"
    /\ last.ret.value.event.type = "ChallengeReveal"
    /\ events["A"] # <<>>
    /\ Head(events["A"]).action = "GenerateEvent"
    /\ Head(events["A"]).event.type = "ChallengeAccepted"

\* C24: the disconnection of a peer leaves the slots and the queue as they
\* were.
C24_DisconnectChangesNothing ==
    [][\A p \in Remote :
         IsCall(last', "inject_disconnected", p) =>
           /\ outbound_challenges' = outbound_challenges
           /\ inbound_challenges' = inbound_challenges
           /\ events' = events
      ]_vars

\* The peer disconnected with both slots occupied and an action queued.
C24_Witness ==
    /\ IsCall(last, "inject_disconnected", "B")
    /\ "B" \notin connected["A"]
    /\ outbound_challenges["A"]["B"].tag = "Some"
    /\ inbound_challenges["A"]["B"].tag = "PendingPreimage"
    /\ events["A"] # <<>>

\* C25: a handler command queued in reply to a frame (the reveal, the
\* poison) names one connection, the one the frame came in on, not any
\* connection with the peer.
C25_RepliesToSameConnection ==
    [][\A p \in Remote :
         IsCall(last', "inject_event", p) =>
           \A i \in DOMAIN Queued("A") :
             Queued("A")[i].action = "NotifyHandler" => Queued("A")[i].handler # "Any"
      ]_vars

\* The records of the handler before and after a step, as what they are.
IsHandlerCall(call, op) == call.op = op /\ call.node = "A"

\* C26: the poison flag of a handler is one-way. Once set it stays set; a
\* poll of a poisoned handler returns Close(Poisoned) whatever records are
\* pending and whatever was injected since, and writes nothing; injecting
\* ChallengePoisoned sets the flag, creates no record and no substream.
C26_PoisonOneWay ==
    [][/\ handler_error_received["A"] => handler_error_received'["A"]
       /\ (IsHandlerCall(last', "handler_inject_event")
             /\ last'.arg = [type |-> "ChallengePoisoned"]) =>
            /\ handler_error_received'["A"]
            /\ substream_states'["A"] = substream_states["A"]
            /\ streams' = streams
       /\ (IsHandlerCall(last', "handler_poll") /\ handler_error_received["A"]) =>
            /\ last'.ret = [type |-> "Close", error |-> "Poisoned"]
            /\ streams' = streams
      ]_vars

\* A poisoned handler with a record still pending was polled and returned
\* Close(Poisoned).
C26_Witness ==
    /\ IsHandlerCall(last, "handler_poll")
    /\ last.ret = [type |-> "Close", error |-> "Poisoned"]
    /\ handler_error_received["A"]
    /\ Len(substream_states["A"]) = 2

SurfacedAs(payload) ==
    CASE payload.type = "Challenge" -> [type |-> "ChallengeReceived", bytes |-> payload.bytes]
      [] payload.type = "ChallengeAccept" -> [type |-> "ChallengeAccepted", bytes |-> payload.bytes]
      [] payload.type = "ChallengeReveal" ->
           [type |-> "ChallengeRevealReceived", bytes |-> payload.bytes]
      [] payload.type = "ChallengeCancel" -> [type |-> "ChallengeCanceled"]
      [] payload.type = "ChallengeDecline" -> [type |-> "ChallengeDeclined"]

\* The inbound substreams whose WaitingMessage record a step removed.
ReadsEnded ==
    {i \in DOMAIN streams :
       /\ Count(substream_states["A"], [state |-> "WaitingMessage", stream |-> i]) = 1
       /\ Count(substream_states'["A"], [state |-> "WaitingMessage", stream |-> i]) = 0}

C29_OutboundSingleUse ==
    [][/\ (IsHandlerCall(last', "handler_poll") /\ ~handler_error_received["A"]) =>
            LET outcome == last'.arg
                ret == last'.ret
                before == substream_states["A"]
                after == substream_states'["A"]
                Open(msg) == [state |-> "PendingOpen", msg |-> msg]
                Send(i) == [state |-> "PendingSend", stream |-> i]
            IN
            /\ \A k \in DOMAIN after : Count(after, after[k]) <= Count(before, after[k])
            /\ \A msg \in Frames :
                 Count(after, Open(msg)) =
                   Count(before, Open(msg))
                     - (IF ret = [type |-> "OutboundSubstreamRequest", msg |-> msg]
                        THEN 1 ELSE 0)
            /\ ret.type = "OutboundSubstreamRequest" =>
                 /\ Len(streams') = Len(streams) + 1
                 /\ streams'[Len(streams')] =
                      [src |-> "A", msg |-> ret.msg, written |-> FALSE, open |-> "Requested"]
            /\ \A i \in DOMAIN streams :
                 Count(before, Send(i)) = 1 =>
                   /\ Count(after, Send(i)) = 0 =>
                        \/ outcome[i] = "Ok" /\ streams'[i].written
                        \/ /\ outcome[i] \notin {"Ok", "Pending"}
                           /\ ret = [type |-> "Close", error |-> outcome[i]]
                   /\ outcome[i] = "Pending" => Count(after, Send(i)) = 1
                   /\ (ret.type = "Pending" /\ outcome[i] = "Ok") => Count(after, Send(i)) = 0
                   /\ streams'[i].msg = streams[i].msg
       /\ IsHandlerCall(last', "inject_fully_negotiated_outbound") =>
            LET i == last'.arg IN
            /\ Count(substream_states["A"], [state |-> "PendingSend", stream |-> i]) = 0
            /\ ~streams[i].written
            /\ substream_states'["A"] =
                 Append(substream_states["A"], [state |-> "PendingSend", stream |-> i])
            /\ streams'[i].msg = streams[i].msg
       /\ \A i \in DOMAIN streams :
            /\ Count(substream_states["A"], [state |-> "PendingSend", stream |-> i]) <= 1
            /\ streams[i].written => i \in DOMAIN streams' /\ streams'[i].written
            /\ (streams[i].src = "A" /\ streams[i].written) =>
                 Count(substream_states'["A"], [state |-> "PendingSend", stream |-> i]) = 0
      ]_vars

\* One poll completed the write of the first frame and returned the
\* request for the second: no record is left, the first substream has its
\* frame written and the second is asked for.
C29_Witness ==
    /\ IsHandlerCall(last, "handler_poll")
    /\ last.ret.type = "OutboundSubstreamRequest"
    /\ last.arg = <<"Ok">>
    /\ substream_states["A"] = <<>>
    /\ Len(streams) = 2
    /\ streams[1].src = "A" /\ streams[1].written
    /\ streams[2] = [src |-> "A", msg |-> last.ret.msg, written |-> FALSE,
                     open |-> "Requested"]
    /\ streams[1].msg # streams[2].msg

\* C30: whenever the handler holds a substream record, its keep-alive is
\* Yes.
C30_KeepAliveYesWhileRecords ==
    substream_states["A"] # <<>> => keep_alive["A"] = [keep_alive |-> "Yes"]

\* C31: a poll that leaves the handler without substream records leaves
\* its keep-alive at an Until deadline, also when the last record went out
\* as a substream request or an event and when there never was a record.
C31_IdleKeepAliveUntil ==
    [][(/\ IsHandlerCall(last', "handler_poll")
        /\ last'.ret.type # "Close"
        /\ substream_states'["A"] = <<>>) =>
         keep_alive'["A"].keep_alive = "Until"
      ]_vars

\* C32: once the handler is poisoned or a substream it asked for could not
\* be negotiated, its keep-alive is No, in every later state.
C32_KeepAliveNoAfterFailure ==
    (\/ handler_error_received["A"]
     \/ \E i \in DOMAIN streams : streams[i].open = "Failed") =>
      keep_alive["A"] = [keep_alive |-> "No"]

\* C33: a future that fails when the handler polls it makes that poll
\* return Close with the error of the future, and the failure stays with
\* the connection: the slots and the queues of both behaviours are as they
\* were before the poll.
C33_FailureClosesConnectionOnly ==
    [][\A n \in Node :
         (/\ last'.op = "handler_poll" /\ last'.node = n
          /\ "outcome" \in DOMAIN last'.arg
          /\ ~handler_error_received[n]) =>
           LET outcome == last'.arg.outcome
               ret == last'.ret
               polled == {substream_states[n][k].stream :
                            k \in {j \in DOMAIN substream_states[n] :
                                     /\ substream_states[n][j].state # "PendingOpen"
                                     /\ \A j2 \in DOMAIN substream_states'[n] :
                                          substream_states'[n][j2] # substream_states[n][j]}}
           IN
           /\ ret.type # "Pending"
           /\ ret.type = "Close" =>
                /\ \E i \in DOMAIN streams :
                     /\ outcome[i] \notin {"Pending", "Ok"}
                     /\ ret.error = outcome[i]
                /\ outbound_challenges' = outbound_challenges
                /\ inbound_challenges' = inbound_challenges
                /\ events' = events
                /\ actions_queue' = actions_queue
                /\ history' = history
           /\ ret.type \in {"OutboundSubstreamRequest", "Custom"} =>
                \A i \in polled : outcome[i] \in {"Pending", "Ok"}
      ]_vars

\* The read of a frame failed on node B while node A's challenge is
\* pending: the connection is closed, A's outbound slot is still occupied.
C33_Witness ==
    /\ last.op = "handler_poll"
    /\ last.node = "B"
    /\ last.ret = [type |-> "Close", error |-> "ProtobufDecode"]
    /\ connected = [n \in Node |-> {}]
    /\ outbound_challenges["A"]["B"].tag = "Some"
    /\ inbound_challenges["B"]["A"] = None

\* The ChallengeAccepted events among the events seq.
AcceptedIn(seq) == SelectSeq(seq, LAMBDA e : e.type = "ChallengeAccepted")

\* C35: between two honest nodes of which each has produced one
\* ChallengeAccepted event, the two events name the same random whenever
\* they name the same preimage.
C35_SeedAgreement ==
    \A p, r, r2 \in Bytes :
      (/\ AcceptedIn(Emitted("A")) = << ChallengeAccepted("B", p, r) >>
       /\ AcceptedIn(Emitted("B")) = << ChallengeAccepted("A", p, r2) >>) =>
        r = r2

\* The actions of type type among the actions seq: handler commands or
\* events.
CountType(seq, action, type) ==
    Cardinality({i \in DOMAIN seq : seq[i].action = action /\ seq[i].event.type = type})

\* C36: an abandoned challenge is never revealed. A cancel, a
\* ChallengeDeclined frame and the outbound timeout leave the outbound slot
\* empty; an empty slot stays empty until the next challenge; while it is
\* empty no step queues a ChallengeReveal command, and a ChallengeAccepted
\* frame queues nothing; a ChallengeReveal command that is queued carries
\* the preimage of the slot as it was when the frame arrived.
C36_AbandonedNeverRevealed ==
    [][\A p \in Remote :
         LET slot == outbound_challenges["A"][p]
             expired == /\ slot.tag = "Some"
                        /\ now - slot.timestamp > challenge_accept_timeout
             reveals == {i \in DOMAIN Queued("A") :
                           /\ Queued("A")[i].action = "NotifyHandler"
                           /\ Queued("A")[i].peer_id = p
                           /\ Queued("A")[i].event.type = "ChallengeReveal"}
         IN
         /\ (\/ IsCall(last', "cancel_challenge", p)
             \/ IsInject(last', p, "ChallengeDeclined")
             \/ IsCall(last', "poll", "A") /\ events["A"] = <<>> /\ expired) =>
               outbound_challenges'["A"][p] = [tag |-> "None"]
         /\ (slot = [tag |-> "None"] /\ ~IsCall(last', "challenge_peer", p)) =>
               /\ outbound_challenges'["A"][p] = [tag |-> "None"]
               /\ reveals = {}
               /\ IsInject(last', p, "ChallengeAccepted") => Queued("A") = <<>>
         /\ \A i \in reveals :
               /\ slot.tag = "Some"
               /\ Queued("A")[i].event.bytes = slot.preimage
      ]_vars

\* The challenge was cancelled, the cancel command is still queued, and
\* the peer's accept has arrived since: nothing was queued for it.
C36_Witness ==
    /\ IsInject(last, "B", "ChallengeAccepted")
    /\ outbound_challenges["A"]["B"] = [tag |-> "None"]
    /\ events["A"] = << [action |-> "NotifyHandler", peer_id |-> "B", handler |-> "Any",
                         event |-> [type |-> "ChallengeCanceled"]] >>

\* C37: a step produces at most one outcome for the outbound challenge to
\* a peer (ChallengeAccepted on an accept frame, ChallengeDeclined, or the
\* outbound timeout) and at most one for the inbound one (ChallengeAccepted
\* or the mismatch error on a reveal frame, ChallengeCanceled, or the
\* inbound timeout); the step that does found the slot occupied and leaves
\* it empty, so the challenge has no second outcome; a ChallengeReveal
\* command is queued once, with the ChallengeAccepted event.
C37_OneOutcomePerChallenge ==
    [][\A p \in Remote :
         LET queued == Queued("A")
             on_accept == IsInject(last', p, "ChallengeAccepted")
             on_reveal == IsInject(last', p, "ChallengeRevealReceived")
             accepted == CountType(queued, "GenerateEvent", "ChallengeAccepted")
             outbound_outcomes ==
                 (IF on_accept THEN accepted ELSE 0)
                   + Count(queued, GenerateEvent(ChallengeDeclined(p)))
                   + Count(queued, GenerateEvent(ChallengeTimeout(p, "Outbound")))
             inbound_outcomes ==
                 (IF on_reveal THEN accepted ELSE 0)
                   + (IF on_reveal
                      THEN Count(queued, GenerateEvent(ChallengeCommitmentPreimageMismatch))
                      ELSE 0)
                   + Count(queued, GenerateEvent(ChallengeCanceled(p)))
                   + Count(queued, GenerateEvent(ChallengeTimeout(p, "Inbound")))
             reveals == CountType(queued, "NotifyHandler", "ChallengeReveal")
         IN
         /\ outbound_outcomes <= 1
         /\ outbound_outcomes = 1 =>
               /\ outbound_challenges["A"][p].tag = "Some"
               /\ outbound_challenges'["A"][p] = [tag |-> "None"]
         /\ inbound_outcomes <= 1
         /\ inbound_outcomes = 1 =>
               /\ inbound_challenges["A"][p] # [tag |-> "None"]
               /\ inbound_challenges'["A"][p] = [tag |-> "None"]
         /\ reveals = (IF on_accept THEN accepted ELSE 0)
      ]_vars

\* The peer's accept completed the challenge, the reveal command went out,
\* and a second accept frame has arrived: the only event is still the
\* first one.
C37_Witness ==
    /\ IsInject(last, "B", "ChallengeAccepted")
    /\ outbound_challenges["A"]["B"] = [tag |-> "None"]
    /\ Len(events["A"]) = 1
    /\ events["A"][1].action = "GenerateEvent"
    /\ events["A"][1].event.type = "ChallengeAccepted"
    /\ events["A"][1].event.random # last.arg.bytes

\* C38: between two honest nodes, the node whose reveal frame makes the
\* other produce ChallengeAccepted with preimage x has itself produced
\* ChallengeAccepted with preimage x before.
C38_ChallengerCompletesFirst ==
    [][\A n \in Node :
         (/\ last'.op = "inject_event" /\ last'.node = n
          /\ last'.arg.type = "ChallengeRevealReceived"
          /\ CountType(Queued(n), "GenerateEvent", "ChallengeAccepted") > 0) =>
           \E r0 \in Bytes :
              \E i \in DOMAIN Emitted(Other(n)) :
                 Emitted(Other(n))[i] =
                   [type |-> "ChallengeAccepted", peer_id |-> n,
                    preimage |-> last'.arg.bytes, random |-> r0]
      ]_vars

\* The reveal has completed the challenge on node B; node A's own
\* ChallengeAccepted event is there, with the same preimage.
C38_Witness ==
    /\ last.op = "inject_event" /\ last.node = "B"
    /\ last.arg = [type |-> "ChallengeRevealReceived", bytes |-> 1]
    /\ \E r \in Bytes :
         /\ Emitted("B") = << [type |-> "PeerChallenge", peer_id |-> "A"],
                              [type |-> "ChallengeAccepted", peer_id |-> "A",
                               preimage |-> 1, random |-> r] >>
         /\ Emitted("A") = << [type |-> "ChallengeAccepted", peer_id |-> "B",
                               preimage |-> 1, random |-> r] >>

\* C34: the bytes send_message writes start with two bytes that are, high
\* byte first, the number of bytes that follow, whenever that number fits
\* sixteen bits, and read_message then returns the message that was sent;
\* the frames the behaviour asks for, with fields of 32 bytes or without
\* field, all fit.
C34_FramingRoundTrip ==
    /\ \A i \in DOMAIN streams :
         LET wire == streams[i].wire
             following == Len(wire.head) + wire.len - 2
             payload == streams[i].msg.payload
         IN
         /\ following < 65536 => wire.head[1] * 256 + wire.head[2] = following
         /\ (/\ payload # [tag |-> "None"]
             /\ "bytes" \in DOMAIN payload => payload.bytes.len = 32) =>
               following < 65536
    /\ last.op = "read_message" =>
         LET wire == streams[last.arg].wire IN
         Len(wire.head) + wire.len - 2 < 65536 =>
           last.ret = [result |-> "Ok", value |-> streams[last.arg].msg]

\* A Challenge frame with a commitment of 32 bytes went out as 38 bytes,
\* the length 36 first, and was read back.
C34_Witness ==
    /\ last.op = "read_message"
    /\ streams[last.arg].msg =
         [payload |-> [type |-> "Challenge", bytes |-> [len |-> 32, fill |-> 1]]]
    /\ streams[last.arg].wire = [head |-> <<0, 36, 10, 34, 10, 32>>, len |-> 32, fill |-> 1]
    /\ last.ret = [result |-> "Ok", value |-> streams[last.arg].msg]

\* C39 as stated: while the behaviour keeps being polled and time advances,
\* no challenge stays on a timed state past its timeout: an outbound slot
\* whose accept timeout has passed and a PendingPreimage slot whose reveal
\* timeout has passed eventually stop holding that challenge.
C39_NoChallengeWaitsForever ==
    \A p \in Remote :
      /\ OutboundTimedOut(outbound_challenges["A"][p], now)
           ~> ~OutboundTimedOut(outbound_challenges["A"][p], now)
      /\ InboundTimedOut(inbound_challenges["A"][p], now)
           ~> ~InboundTimedOut(inbound_challenges["A"][p], now)

====
